---- MODULE Spec2Model ----
(***************************************************************************)
(* HTML Code Checker (app.py): the three analysis functions                *)
(* calculate_similarity, check_ai_indicators, analyze_code_structure and   *)
(* the Streamlit script that calls them on every rerun.                    *)
(*                                                                         *)
(* A text the program analyses (a Python str) is the sequence of the code  *)
(* points of its characters, Text("...") the text of a literal; positions  *)
(* are 1-based (Python's are 0-based).  The labels and messages the        *)
(* program shows are TLA+ strings.                                         *)
(* AI scores are counted in half points: 1.5 is 3, the cap 10 is 20.       *)
(* A similarity ratio is the record [num, den] of its fraction.            *)
(***************************************************************************)
EXTENDS Integers, Sequences, FiniteSets, TLC

VARIABLES
    code,           \* argument of check_ai_indicators / analyze_code_structure
    ai_result,      \* what check_ai_indicators returned, or NotCalled
    structure,      \* what analyze_code_structure returned, or NotCalled
    text1, text2,   \* arguments of calculate_similarity
    similarity,     \* what calculate_similarity returned, or NotCalled
    user_code,      \* the text area's content (app.py line 174)
    clicked,        \* what st.button returned in the last run (line 180)
    session_state,  \* st.session_state: a function on the keys that are set
    page            \* what the last run of the script called and showed

vars == <<code, ai_result, structure, text1, text2, similarity,
          user_code, clicked, session_state, page>>

\* Python's None, and the value of a result variable before the call
None == [type |-> "NoneType"]
NotCalled == [type |-> "NotCalled"]

----------------------------------------------------------------------------
(* Python str operations *)

Min(S) == CHOOSE x \in S : \A y \in S : x <= y
Max(S) == CHOOSE x \in S : \A y \in S : x >= y

\* f itself; the comparison makes TLC tabulate f once instead of
\* evaluating its body at every application
Table(f) == IF f = << >> THEN << >> ELSE f

\* the ASCII characters from " " to "_" and from "a" to "~", in order
Ascii == " !\"#$%&'()*+,-./0123456789:;<=>?@ABCDEFGHIJKLMNOPQRSTUVWXYZ[\\]^_"
AsciiLower == "abcdefghijklmnopqrstuvwxyz{|}~"

Codes ==
    {<<"\t", 9>>, <<"\n", 10>>, <<"\f", 12>>, <<"\r", 13>>}
        \cup {<<SubSeq(Ascii, k, k), 31 + k>> : k \in 1..Len(Ascii)}
        \cup {<<SubSeq(AsciiLower, k, k), 96 + k>> : k \in 1..Len(AsciiLower)}

\* ord(ch) of a character written as a one-character literal
ord == Table([ch \in {p[1] : p \in Codes} |-> (CHOOSE p \in Codes : p[1] = ch)[2]])

\* the text of a literal
Text(s) == [i \in 1..Len(s) |-> ord[SubSeq(s, i, i)]] \o << >>

\* s.startswith(p, i-1)
StartsWithAt(s, p, i) ==
    /\ i >= 1
    /\ i + Len(p) - 1 <= Len(s)
    /\ SubSeq(s, i, i + Len(p) - 1) = p

\* p in s
Contains(s, p) == \E i \in 1..(Len(s) - Len(p) + 1) : StartsWithAt(s, p, i)

\* s.find(p, from-1) + 1: the first position >= from where p occurs, 0 if none
Find(s, p, from) ==
    IF \E i \in from..(Len(s) - Len(p) + 1) : StartsWithAt(s, p, i)
    THEN CHOOSE i \in from..(Len(s) - Len(p) + 1) :
            /\ StartsWithAt(s, p, i)
            /\ \A k \in from..(i - 1) : ~StartsWithAt(s, p, k)
    ELSE 0

\* s.count(p): occurrences found left to right, not overlapping
RECURSIVE CountFrom(_, _, _)
CountFrom(s, p, from) ==
    LET i == Find(s, p, from)
    IN  IF i = 0 THEN 0 ELSE 1 + CountFrom(s, p, i + Len(p))

Count(s, p) == CountFrom(s, p, 1)

\* the characters str.strip() removes and the regex class \s matches in a
\* str: those with str.isspace(), ASCII and not
Whitespace ==
    {9, 10, 11, 12, 13, 28, 29, 30, 31, 32, 133, 160, 5760}
        \cup (8192..8202) \cup {8232, 8233, 8239, 8287, 12288}

\* s.strip()
strip(s) ==
    LET Kept(i) == s[i] \notin Whitespace
    IN  IF \A i \in 1..Len(s) : ~Kept(i)
        THEN << >>
        ELSE SubSeq(s,
                 CHOOSE i \in 1..Len(s) : Kept(i) /\ \A k \in 1..(i - 1) : ~Kept(k),
                 CHOOSE i \in 1..Len(s) : Kept(i) /\ \A k \in (i + 1)..Len(s) : ~Kept(k))

\* str(n) for n >= 0, as the labels show it
Digit == <<"0", "1", "2", "3", "4", "5", "6", "7", "8", "9">>

RECURSIVE Str(_)
Str(n) == IF n < 10 THEN Digit[n + 1] ELSE Str(n \div 10) \o Digit[(n % 10) + 1]

----------------------------------------------------------------------------
(* The reference document, app.py lines 7-79 *)

EXPECTED_HTML ==
    Text("<!DOCTYPE html>\n"
     \o "<html lang=\"en\">\n"
     \o "<head>\n"
     \o "  <meta charset=\"UTF-8\">\n"
     \o "  <meta name=\"viewport\" content=\"width=device-width, initial-scale=1.0\">\n"
     \o "  <title>Advanced Bootstrap Grid Layout</title>\n"
     \o "  <!-- Bootstrap CSS -->\n"
     \o "  <link href=\"https://cdn.jsdelivr.net/npm/bootstrap@5.3.2/dist/css/bootstrap.min.css\" rel=\"stylesheet\">\n"
     \o "  <style>\n"
     \o "    /* Custom media query (extra challenge) */\n"
     \o "    @media (max-width: 600px) {\n"
     \o "      .hero-text {\n"
     \o "        font-size: 1.2rem;\n"
     \o "        text-align: center;\n"
     \o "      }\n"
     \o "    }\n"
     \o "    .box {\n"
     \o "      padding: 20px;\n"
     \o "      color: white;\n"
     \o "      border-radius: 8px;\n"
     \o "    }\n"
     \o "  </style>\n"
     \o "</head>\n"
     \o "<body>\n"
     \o "  <div class=\"container mt-4\">\n"
     \o "    <!-- Hero Section -->\n"
     \o "    <div class=\"row mb-4\">\n"
     \o "      <div class=\"col-12 bg-dark text-white p-4 hero-text\">\n"
     \o "        <h2 class=\"mb-0\">Advanced Bootstrap Grid Layout</h2>\n"
     \o "        <p class=\"mb-0\">This layout changes at 3 different breakpoints.</p>\n"
     \o "      </div>\n"
     \o "    </div>\n"
     \o "    <!-- Main 3-Column Layout -->\n"
     \o "    <div class=\"row g-3\">\n"
     \o "      <div class=\"col-12 col-md-6 col-lg-4\">\n"
     \o "        <div class=\"box bg-primary\">Main Box 1</div>\n"
     \o "      </div>\n"
     \o "      <div class=\"col-12 col-md-6 col-lg-4\">\n"
     \o "        <div class=\"box bg-success\">Main Box 2</div>\n"
     \o "      </div>\n"
     \o "      <div class=\"col-12 col-md-12 col-lg-4\">\n"
     \o "        <div class=\"box bg-danger\">Main Box 3</div>\n"
     \o "      </div>\n"
     \o "    </div>\n"
     \o "    <!-- Nested Grid Section -->\n"
     \o "    <div class=\"row mt-4\">\n"
     \o "      <div class=\"col-12 col-lg-8\">\n"
     \o "        <div class=\"box bg-warning text-dark\">\n"
     \o "          <h4>Main Content Area</h4>\n"
     \o "          <!-- Nested Row -->\n"
     \o "          <div class=\"row mt-3\">\n"
     \o "            <div class=\"col-6 col-md-4\">\n"
     \o "              <div class=\"box bg-secondary\">Nested 1</div>\n"
     \o "            </div>\n"
     \o "            <div class=\"col-6 col-md-4\">\n"
     \o "              <div class=\"box bg-info text-dark\">Nested 2</div>\n"
     \o "            </div>\n"
     \o "            <div class=\"col-12 col-md-4\">\n"
     \o "              <div class=\"box bg-dark\">Nested 3</div>\n"
     \o "            </div>\n"
     \o "          </div>\n"
     \o "        </div>\n"
     \o "      </div>\n"
     \o "      <!-- Sidebar -->\n"
     \o "      <div class=\"col-12 col-lg-4\">\n"
     \o "        <div class=\"box bg-primary\">Sidebar Area</div>\n"
     \o "      </div>\n"
     \o "    </div>\n"
     \o "  </div>\n"
     \o "  <!-- Bootstrap JS -->\n"
     \o "  <script src=\"https://cdn.jsdelivr.net/npm/bootstrap@5.3.2/dist/js/bootstrap.bundle.min.js\"></script>\n"
     \o "</body>\n"
     \o "</html>")

----------------------------------------------------------------------------
(* check_ai_indicators, app.py lines 85-143 *)

\* re.search(r'^\s{2}', code, re.MULTILINE): two whitespace characters at
\* the start of the text or right after a newline
HasIndentation(c) ==
    \E i \in 1..(Len(c) - 1) :
        /\ i = 1 \/ c[i - 1] = ord["\n"]
        /\ c[i] \in Whitespace
        /\ c[i + 1] \in Whitespace

\* re.findall(r'<!--.*?-->', code, re.DOTALL), counted from position `from`:
\* leftmost "<!--", then the first "-->" after it, then on from its end
RECURSIVE CommentsFrom(_, _)
CommentsFrom(c, from) ==
    LET lt == Find(c, Text("<!--"), from)
        gt == IF lt = 0 THEN 0 ELSE Find(c, Text("-->"), lt + 4)
    IN  IF gt = 0 THEN 0 ELSE 1 + CommentsFrom(c, gt + 3)

comment_count(c) == CommentsFrom(c, 1)

HasSemanticTag(c) ==
    \/ Contains(c, Text("<header>"))
    \/ Contains(c, Text("<section>"))
    \/ Contains(c, Text("<article>"))

bootstrap_classes ==
    <<Text("container"), Text("row"), Text("col-"), Text("bg-"), Text("text-"),
      Text("mt-"), Text("mb-"), Text("p-")>>

bootstrap_count(c) ==
    Cardinality({k \in 1..Len(bootstrap_classes) : Contains(c, bootstrap_classes[k])})

HasStyleAndMedia(c) == Contains(c, Text("<style>")) /\ Contains(c, Text("@media"))

\* the characters of [a-z-]
KebabChars == (ord["a"]..ord["z"]) \cup {ord["-"]}

\* re.search(r'class="[a-z-]+"', code)
HasKebabClass(c) ==
    \E i \in 1..Len(c) :
        /\ StartsWithAt(c, Text("class=\""), i)
        /\ LET q == Find(c, Text("\""), i + 7)
           IN  /\ q > i + 7
               /\ \A k \in (i + 7)..(q - 1) : c[k] \in KebabChars

HasDoctypeAndViewport(c) ==
    Contains(c, Text("<!DOCTYPE html>")) /\ Contains(c, Text("viewport"))

HasCdnLink(c) ==
    Contains(c, Text("cdn.jsdelivr.net")) \/ Contains(c, Text("cdnjs.cloudflare.com"))

row_div_count(c) == Count(c, Text("<div class=\"row"))

HasLangAndCharset(c) ==
    Contains(c, Text("lang=\"en\"")) /\ Contains(c, Text("charset=\"UTF-8\""))

\* faulty variant of AddIndicator: every check counts one point
AddIndicator_one_point(acc, cond, weight, label) ==
    IF cond
    THEN [ai_score |-> acc.ai_score + 2,
          indicators |-> Append(acc.indicators, label)]
    ELSE acc

\* faulty variant of AddIndicator: indicators.insert(0, label)
AddIndicator_insert_first(acc, cond, weight, label) ==
    IF cond
    THEN [ai_score |-> acc.ai_score + weight,
          indicators |-> <<label>> \o acc.indicators]
    ELSE acc

\* one `if` of the battery: ai_score += weight; indicators.append(label)
AddIndicator(acc, cond, weight, label) ==
    IF cond
    THEN [ai_score |-> acc.ai_score + weight,
          indicators |-> Append(acc.indicators, label)]
    ELSE acc

\* faulty variant of CapScore: min(ai_score, 8)
CapScore_eight(ai_score) == IF ai_score < 16 THEN ai_score ELSE 16

\* min(ai_score, 10), in half points
CapScore(ai_score) == IF ai_score < 20 THEN ai_score ELSE 20

check_ai_indicators(c) ==
    LET s0 == [ai_score |-> 0, indicators |-> << >>]
        s1 == AddIndicator(s0, HasIndentation(c), 2,
                  "Consistent 2-space indentation")
        s2 == AddIndicator(s1, comment_count(c) >= 3, 3,
                  "Multiple descriptive comments ("
                      \o Str(comment_count(c)) \o " found)")
        s3 == AddIndicator(s2, HasSemanticTag(c), 1,
                  "Semantic HTML5 elements")
        s4 == AddIndicator(s3, bootstrap_count(c) >= 6, 2,
                  "Extensive Bootstrap utility classes ("
                      \o Str(bootstrap_count(c)) \o " types)")
        s5 == AddIndicator(s4, HasStyleAndMedia(c), 2,
                  "Custom CSS with media queries")
        s6 == AddIndicator(s5, HasKebabClass(c), 1,
                  "Consistent kebab-case naming")
        s7 == AddIndicator(s6, HasDoctypeAndViewport(c), 2,
                  "Proper HTML5 structure with meta viewport")
        s8 == AddIndicator(s7, HasCdnLink(c), 2,
                  "CDN links for libraries")
        s9 == AddIndicator(s8, row_div_count(c) >= 2, 2,
                  "Complex nested grid structure")
        s10 == AddIndicator(s9, HasLangAndCharset(c), 1,
                  "Accessibility and encoding attributes")
    IN  [ai_score |-> CapScore(s10.ai_score), indicators |-> s10.indicators]

----------------------------------------------------------------------------
(* calculate_similarity, app.py lines 81-83:                               *)
(* SequenceMatcher(None, text1.strip(), text2.strip()).ratio()             *)

\* SequenceMatcher.__chain_b: b2j maps a character of b to the positions
\* where it occurs; with autojunk (the default) and len(b) >= 200, a
\* character that occurs more than len(b)//100 + 1 times is dropped.
\* isjunk is None, so no character is junk.
b2j(b) ==
    Table([ch \in {b[j] : j \in 1..Len(b)} |->
        LET idxs == {j \in 1..Len(b) : b[j] = ch}
        IN  IF Len(b) >= 200 /\ Cardinality(idxs) > (Len(b) \div 100) + 1
            THEN {}
            ELSE idxs])

\* a[i] and b[j] are the same character and j is listed in b2j for it
Linked(a, bj, i, j) ==
    /\ a[i] \in DOMAIN bj
    /\ j \in bj[a[i]]

\* the length of the run of linked pairs that starts at (i, j) and stays
\* inside a[alo:ahi] and b[blo:bhi] (the k the dynamic programme reaches
\* at the run's end)
RECURSIVE RunLength(_, _, _, _, _, _)
RunLength(a, bj, i, j, ahi, bhi) ==
    IF i < ahi /\ j < bhi /\ Linked(a, bj, i, j)
    THEN 1 + RunLength(a, bj, i + 1, j + 1, ahi, bhi)
    ELSE 0

\* how many equal characters lie right before (i, j) inside the window
ExtendBack(a, b, i, j, alo, blo) ==
    LET lim == IF i - alo < j - blo THEN i - alo ELSE j - blo
        Eq(d) == a[i - d] = b[j - d]
    IN  IF \A d \in 1..lim : Eq(d)
        THEN lim
        ELSE (CHOOSE d \in 1..lim : ~Eq(d) /\ \A e \in 1..(d - 1) : Eq(e)) - 1

\* how many equal characters lie from (i, j) on inside the window
ExtendForward(a, b, i, j, ahi, bhi) ==
    LET lim == IF ahi - i < bhi - j THEN ahi - i ELSE bhi - j
        Eq(d) == a[i + d - 1] = b[j + d - 1]
    IN  IF \A d \in 1..lim : Eq(d)
        THEN lim
        ELSE (CHOOSE d \in 1..lim : ~Eq(d) /\ \A e \in 1..(d - 1) : Eq(e)) - 1

\* the pairs (i, j) of the window where a run of linked pairs starts
RunStarts(a, bj, alo, ahi, blo, bhi) ==
    UNION {
        {<<i, j>> : j \in {j \in (IF a[i] \in DOMAIN bj
                                  THEN bj[a[i]] ELSE {}) :
                             /\ blo <= j
                             /\ j < bhi
                             /\ ~(i > alo /\ j > blo
                                    /\ Linked(a, bj, i - 1, j - 1))}}
        : i \in alo..(ahi - 1)}

\* among the runs of length `longest`: the one starting earliest in a,
\* and among those earliest in b
FirstOf(top) ==
    CHOOSE s \in top :
        \A t \in top : s[1] < t[1] \/ (s[1] = t[1] /\ s[2] <= t[2])

LongestRun(a, bj, ahi, bhi, starts, longest) ==
    [at |-> FirstOf({s \in starts :
                       RunLength(a, bj, s[1], s[2], ahi, bhi) = longest}),
     size |-> longest]

BestRun(a, bj, alo, ahi, blo, bhi, starts) ==
    IF starts = {}
    THEN [at |-> <<alo, blo>>, size |-> 0]
    ELSE LongestRun(a, bj, ahi, bhi, starts,
             Max({RunLength(a, bj, s[1], s[2], ahi, bhi) : s \in starts}))

\* the run grown by `back` and `fwd` equal characters on its two sides
Grown(run, back, fwd) ==
    [i |-> run.at[1] - back, j |-> run.at[2] - back, size |-> back + run.size + fwd]

Extended(a, b, alo, ahi, blo, bhi, run) ==
    Grown(run,
          ExtendBack(a, b, run.at[1], run.at[2], alo, blo),
          ExtendForward(a, b, run.at[1] + run.size, run.at[2] + run.size, ahi, bhi))

\* SequenceMatcher.find_longest_match(alo, ahi, blo, bhi), windows half
\* open: the longest run of linked pairs, the one starting earliest in a
\* and then earliest in b among the longest, (alo, blo, 0) if there is
\* none; then extended over equal characters on both sides.
find_longest_match(a, b, bj, alo, ahi, blo, bhi) ==
    Extended(a, b, alo, ahi, blo, bhi,
             BestRun(a, bj, alo, ahi, blo, bhi,
                     RunStarts(a, bj, alo, ahi, blo, bhi)))

\* SequenceMatcher.get_matching_blocks, summed.  The windows still to be
\* matched wait in a queue, first the whole of a and b; a turn takes the
\* last window, adds the size of its longest match and queues the windows
\* left and right of the match.
MatcherStart(a, b) ==
    [queue |-> <<[alo |-> 1, ahi |-> Len(a) + 1, blo |-> 1, bhi |-> Len(b) + 1]>>,
     matches |-> 0]

Front(queue) == SubSeq(queue, 1, Len(queue) - 1)

LeftOf(w, m) ==
    IF m.size > 0 /\ w.alo < m.i /\ w.blo < m.j
    THEN <<[alo |-> w.alo, ahi |-> m.i, blo |-> w.blo, bhi |-> m.j]>>
    ELSE << >>

RightOf(w, m) ==
    IF m.size > 0 /\ m.i + m.size < w.ahi /\ m.j + m.size < w.bhi
    THEN <<[alo |-> m.i + m.size, ahi |-> w.ahi, blo |-> m.j + m.size, bhi |-> w.bhi]>>
    ELSE << >>

AroundMatch(s, w, m) ==
    [queue |-> Front(s.queue) \o LeftOf(w, m) \o RightOf(w, m),
     matches |-> s.matches + m.size]

MatchWindow(a, b, bj, s, w) ==
    AroundMatch(s, w, find_longest_match(a, b, bj, w.alo, w.ahi, w.blo, w.bhi))

matching_step(a, b, bj, s) ==
    IF s.queue = << >> THEN s ELSE MatchWindow(a, b, bj, s, s.queue[Len(s.queue)])

\* n turns, or fewer when the queue runs empty before; the turns are split
\* in halves to keep the evaluation shallow
RECURSIVE get_matching_blocks(_, _, _, _, _)

RestOfBlocks(a, b, bj, half, n) ==
    IF half.queue = << >> THEN half ELSE get_matching_blocks(a, b, bj, half, n)

get_matching_blocks(a, b, bj, s, n) ==
    IF s.queue = << >> \/ n = 0 THEN s
    ELSE IF n = 1 THEN matching_step(a, b, bj, s)
    ELSE RestOfBlocks(a, b, bj, get_matching_blocks(a, b, bj, s, n \div 2),
                      n - (n \div 2))

\* a turn matches a character of a and of b for good or queues nothing,
\* so that Len(a) + Len(b) + 1 turns empty the queue
MatchTotal(a, b, bj) ==
    get_matching_blocks(a, b, bj, MatcherStart(a, b), Len(a) + Len(b) + 1).matches

\* faulty variant of ratio: 0.0 when both are empty
ratio_empty_is_zero(a, b) ==
    IF Len(a) + Len(b) > 0
    THEN [num |-> 2 * MatchTotal(a, b, b2j(b)), den |-> Len(a) + Len(b)]
    ELSE [num |-> 0, den |-> 1]

\* SequenceMatcher(None, a, b).ratio(): 2.0 * matches / length, 1.0 when
\* both are empty
ratio(a, b) ==
    IF Len(a) + Len(b) > 0
    THEN [num |-> 2 * MatchTotal(a, b, b2j(b)), den |-> Len(a) + Len(b)]
    ELSE [num |-> 1, den |-> 1]

\* faulty variant of calculate_similarity: text2 is not stripped
calculate_similarity_strip_first(t1, t2) == ratio(strip(t1), t2)

calculate_similarity(t1, t2) == ratio(strip(t1), strip(t2))


----------------------------------------------------------------------------
(* str.lower(), as html.parser applies it to tag and attribute names *)

Letters == (ord["A"]..ord["Z"]) \cup (ord["a"]..ord["z"])
Digits == ord["0"]..ord["9"]
HexDigits == Digits \cup (ord["A"]..ord["F"]) \cup (ord["a"]..ord["f"])

\* ch lies in one of the ranges <<first, last>> of R
InRanges(ch, R) == \E r \in R : r[1] <= ch /\ ch <= r[2]

\* the characters with a one-character lowercase form other than
\* themselves: <<first, last, step, delta>> stands for first, first + step,
\* ... up to last, each lowered by adding delta
LowerRules ==
    {<<65, 90, 1, 32>>, <<192, 214, 1, 32>>, <<216, 222, 1, 32>>,
     <<256, 302, 2, 1>>, <<306, 310, 2, 1>>, <<313, 327, 2, 1>>,
     <<330, 374, 2, 1>>, <<376, 376, 1, -121>>, <<377, 381, 2, 1>>,
     <<385, 385, 1, 210>>, <<386, 388, 2, 1>>, <<390, 390, 1, 206>>,
     <<391, 391, 1, 1>>, <<393, 394, 1, 205>>, <<395, 395, 1, 1>>,
     <<398, 398, 1, 79>>, <<399, 399, 1, 202>>, <<400, 400, 1, 203>>,
     <<401, 401, 1, 1>>, <<403, 403, 1, 205>>, <<404, 404, 1, 207>>,
     <<406, 406, 1, 211>>, <<407, 407, 1, 209>>, <<408, 408, 1, 1>>,
     <<412, 412, 1, 211>>, <<413, 413, 1, 213>>, <<415, 415, 1, 214>>,
     <<416, 420, 2, 1>>, <<422, 422, 1, 218>>, <<423, 423, 1, 1>>,
     <<425, 425, 1, 218>>, <<428, 428, 1, 1>>, <<430, 430, 1, 218>>,
     <<431, 431, 1, 1>>, <<433, 434, 1, 217>>, <<435, 437, 2, 1>>,
     <<439, 439, 1, 219>>, <<440, 440, 1, 1>>, <<444, 444, 1, 1>>,
     <<452, 452, 1, 2>>, <<453, 453, 1, 1>>, <<455, 455, 1, 2>>,
     <<456, 456, 1, 1>>, <<458, 458, 1, 2>>, <<459, 475, 2, 1>>,
     <<478, 494, 2, 1>>, <<497, 497, 1, 2>>, <<498, 500, 2, 1>>,
     <<502, 502, 1, -97>>, <<503, 503, 1, -56>>, <<504, 542, 2, 1>>,
     <<544, 544, 1, -130>>, <<546, 562, 2, 1>>, <<570, 570, 1, 10795>>,
     <<571, 571, 1, 1>>, <<573, 573, 1, -163>>, <<574, 574, 1, 10792>>,
     <<577, 577, 1, 1>>, <<579, 579, 1, -195>>, <<580, 580, 1, 69>>,
     <<581, 581, 1, 71>>, <<582, 590, 2, 1>>, <<880, 882, 2, 1>>,
     <<886, 886, 1, 1>>, <<895, 895, 1, 116>>, <<902, 902, 1, 38>>,
     <<904, 906, 1, 37>>, <<908, 908, 1, 64>>, <<910, 911, 1, 63>>,
     <<913, 929, 1, 32>>, <<931, 939, 1, 32>>, <<975, 975, 1, 8>>,
     <<984, 1006, 2, 1>>, <<1012, 1012, 1, -60>>, <<1015, 1015, 1, 1>>,
     <<1017, 1017, 1, -7>>, <<1018, 1018, 1, 1>>, <<1021, 1023, 1, -130>>,
     <<1024, 1039, 1, 80>>, <<1040, 1071, 1, 32>>, <<1120, 1152, 2, 1>>,
     <<1162, 1214, 2, 1>>, <<1216, 1216, 1, 15>>, <<1217, 1229, 2, 1>>,
     <<1232, 1326, 2, 1>>, <<1329, 1366, 1, 48>>, <<4256, 4293, 1, 7264>>,
     <<4295, 4295, 1, 7264>>, <<4301, 4301, 1, 7264>>,
     <<5024, 5103, 1, 38864>>, <<5104, 5109, 1, 8>>,
     <<7312, 7354, 1, -3008>>, <<7357, 7359, 1, -3008>>,
     <<7680, 7828, 2, 1>>, <<7838, 7838, 1, -7615>>, <<7840, 7934, 2, 1>>,
     <<7944, 7951, 1, -8>>, <<7960, 7965, 1, -8>>, <<7976, 7983, 1, -8>>,
     <<7992, 7999, 1, -8>>, <<8008, 8013, 1, -8>>, <<8025, 8031, 2, -8>>,
     <<8040, 8047, 1, -8>>, <<8072, 8079, 1, -8>>, <<8088, 8095, 1, -8>>,
     <<8104, 8111, 1, -8>>, <<8120, 8121, 1, -8>>, <<8122, 8123, 1, -74>>,
     <<8124, 8124, 1, -9>>, <<8136, 8139, 1, -86>>, <<8140, 8140, 1, -9>>,
     <<8152, 8153, 1, -8>>, <<8154, 8155, 1, -100>>, <<8168, 8169, 1, -8>>,
     <<8170, 8171, 1, -112>>, <<8172, 8172, 1, -7>>,
     <<8184, 8185, 1, -128>>, <<8186, 8187, 1, -126>>,
     <<8188, 8188, 1, -9>>, <<8486, 8486, 1, -7517>>,
     <<8490, 8490, 1, -8383>>, <<8491, 8491, 1, -8262>>,
     <<8498, 8498, 1, 28>>, <<8544, 8559, 1, 16>>, <<8579, 8579, 1, 1>>,
     <<9398, 9423, 1, 26>>, <<11264, 11311, 1, 48>>, <<11360, 11360, 1, 1>>,
     <<11362, 11362, 1, -10743>>, <<11363, 11363, 1, -3814>>,
     <<11364, 11364, 1, -10727>>, <<11367, 11371, 2, 1>>,
     <<11373, 11373, 1, -10780>>, <<11374, 11374, 1, -10749>>,
     <<11375, 11375, 1, -10783>>, <<11376, 11376, 1, -10782>>,
     <<11378, 11378, 1, 1>>, <<11381, 11381, 1, 1>>,
     <<11390, 11391, 1, -10815>>, <<11392, 11490, 2, 1>>,
     <<11499, 11501, 2, 1>>, <<11506, 11506, 1, 1>>, <<42560, 42604, 2, 1>>,
     <<42624, 42650, 2, 1>>, <<42786, 42798, 2, 1>>, <<42802, 42862, 2, 1>>,
     <<42873, 42875, 2, 1>>, <<42877, 42877, 1, -35332>>,
     <<42878, 42886, 2, 1>>, <<42891, 42891, 1, 1>>,
     <<42893, 42893, 1, -42280>>, <<42896, 42898, 2, 1>>,
     <<42902, 42920, 2, 1>>, <<42922, 42922, 1, -42308>>,
     <<42923, 42923, 1, -42319>>, <<42924, 42924, 1, -42315>>,
     <<42925, 42925, 1, -42305>>, <<42926, 42926, 1, -42308>>,
     <<42928, 42928, 1, -42258>>, <<42929, 42929, 1, -42282>>,
     <<42930, 42930, 1, -42261>>, <<42931, 42931, 1, 928>>,
     <<42932, 42946, 2, 1>>, <<42948, 42948, 1, -48>>,
     <<42949, 42949, 1, -42307>>, <<42950, 42950, 1, -35384>>,
     <<42951, 42953, 2, 1>>, <<42960, 42960, 1, 1>>, <<42966, 42968, 2, 1>>,
     <<42997, 42997, 1, 1>>, <<65313, 65338, 1, 32>>,
     <<66560, 66599, 1, 40>>, <<66736, 66771, 1, 40>>,
     <<66928, 66938, 1, 39>>, <<66940, 66954, 1, 39>>,
     <<66956, 66962, 1, 39>>, <<66964, 66965, 1, 39>>,
     <<68736, 68786, 1, 64>>, <<71840, 71871, 1, 32>>,
     <<93760, 93791, 1, 32>>, <<125184, 125217, 1, 34>>}

LowerRuleOf(ch, r) == r[1] <= ch /\ ch <= r[2] /\ (ch - r[1]) % r[3] = 0

LowerChar(ch) ==
    IF ch < 128
    THEN IF ord["A"] <= ch /\ ch <= ord["Z"] THEN ch + 32 ELSE ch
    ELSE IF \E r \in LowerRules : LowerRuleOf(ch, r)
    THEN ch + (CHOOSE r \in LowerRules : LowerRuleOf(ch, r))[4]
    ELSE ch

\* the case-ignorable characters, as ranges
CaseIgnorable ==
    {<<39, 39>>, <<46, 46>>, <<58, 58>>, <<94, 94>>, <<96, 96>>,
     <<168, 168>>, <<173, 173>>, <<175, 175>>, <<180, 180>>, <<183, 184>>,
     <<688, 879>>, <<884, 885>>, <<890, 890>>, <<900, 901>>, <<903, 903>>,
     <<1155, 1161>>, <<1369, 1369>>, <<1375, 1375>>, <<1425, 1469>>,
     <<1471, 1471>>, <<1473, 1474>>, <<1476, 1477>>, <<1479, 1479>>,
     <<1524, 1524>>, <<1536, 1541>>, <<1552, 1562>>, <<1564, 1564>>,
     <<1600, 1600>>, <<1611, 1631>>, <<1648, 1648>>, <<1750, 1757>>,
     <<1759, 1768>>, <<1770, 1773>>, <<1807, 1807>>, <<1809, 1809>>,
     <<1840, 1866>>, <<1958, 1968>>, <<2027, 2037>>, <<2042, 2042>>,
     <<2045, 2045>>, <<2070, 2093>>, <<2137, 2139>>, <<2184, 2184>>,
     <<2192, 2193>>, <<2200, 2207>>, <<2249, 2306>>, <<2362, 2362>>,
     <<2364, 2364>>, <<2369, 2376>>, <<2381, 2381>>, <<2385, 2391>>,
     <<2402, 2403>>, <<2417, 2417>>, <<2433, 2433>>, <<2492, 2492>>,
     <<2497, 2500>>, <<2509, 2509>>, <<2530, 2531>>, <<2558, 2558>>,
     <<2561, 2562>>, <<2620, 2620>>, <<2625, 2626>>, <<2631, 2632>>,
     <<2635, 2637>>, <<2641, 2641>>, <<2672, 2673>>, <<2677, 2677>>,
     <<2689, 2690>>, <<2748, 2748>>, <<2753, 2757>>, <<2759, 2760>>,
     <<2765, 2765>>, <<2786, 2787>>, <<2810, 2815>>, <<2817, 2817>>,
     <<2876, 2876>>, <<2879, 2879>>, <<2881, 2884>>, <<2893, 2893>>,
     <<2901, 2902>>, <<2914, 2915>>, <<2946, 2946>>, <<3008, 3008>>,
     <<3021, 3021>>, <<3072, 3072>>, <<3076, 3076>>, <<3132, 3132>>,
     <<3134, 3136>>, <<3142, 3144>>, <<3146, 3149>>, <<3157, 3158>>,
     <<3170, 3171>>, <<3201, 3201>>, <<3260, 3260>>, <<3263, 3263>>,
     <<3270, 3270>>, <<3276, 3277>>, <<3298, 3299>>, <<3328, 3329>>,
     <<3387, 3388>>, <<3393, 3396>>, <<3405, 3405>>, <<3426, 3427>>,
     <<3457, 3457>>, <<3530, 3530>>, <<3538, 3540>>, <<3542, 3542>>,
     <<3633, 3633>>, <<3636, 3642>>, <<3654, 3662>>, <<3761, 3761>>,
     <<3764, 3772>>, <<3782, 3782>>, <<3784, 3789>>, <<3864, 3865>>,
     <<3893, 3893>>, <<3895, 3895>>, <<3897, 3897>>, <<3953, 3966>>,
     <<3968, 3972>>, <<3974, 3975>>, <<3981, 3991>>, <<3993, 4028>>,
     <<4038, 4038>>, <<4141, 4144>>, <<4146, 4151>>, <<4153, 4154>>,
     <<4157, 4158>>, <<4184, 4185>>, <<4190, 4192>>, <<4209, 4212>>,
     <<4226, 4226>>, <<4229, 4230>>, <<4237, 4237>>, <<4253, 4253>>,
     <<4348, 4348>>, <<4957, 4959>>, <<5906, 5908>>, <<5938, 5939>>,
     <<5970, 5971>>, <<6002, 6003>>, <<6068, 6069>>, <<6071, 6077>>,
     <<6086, 6086>>, <<6089, 6099>>, <<6103, 6103>>, <<6109, 6109>>,
     <<6155, 6159>>, <<6211, 6211>>, <<6277, 6278>>, <<6313, 6313>>,
     <<6432, 6434>>, <<6439, 6440>>, <<6450, 6450>>, <<6457, 6459>>,
     <<6679, 6680>>, <<6683, 6683>>, <<6742, 6742>>, <<6744, 6750>>,
     <<6752, 6752>>, <<6754, 6754>>, <<6757, 6764>>, <<6771, 6780>>,
     <<6783, 6783>>, <<6823, 6823>>, <<6832, 6862>>, <<6912, 6915>>,
     <<6964, 6964>>, <<6966, 6970>>, <<6972, 6972>>, <<6978, 6978>>,
     <<7019, 7027>>, <<7040, 7041>>, <<7074, 7077>>, <<7080, 7081>>,
     <<7083, 7085>>, <<7142, 7142>>, <<7144, 7145>>, <<7149, 7149>>,
     <<7151, 7153>>, <<7212, 7219>>, <<7222, 7223>>, <<7288, 7293>>,
     <<7376, 7378>>, <<7380, 7392>>, <<7394, 7400>>, <<7405, 7405>>,
     <<7412, 7412>>, <<7416, 7417>>, <<7468, 7530>>, <<7544, 7544>>,
     <<7579, 7679>>, <<8125, 8125>>, <<8127, 8129>>, <<8141, 8143>>,
     <<8157, 8159>>, <<8173, 8175>>, <<8189, 8190>>, <<8203, 8207>>,
     <<8216, 8217>>, <<8228, 8228>>, <<8231, 8231>>, <<8234, 8238>>,
     <<8288, 8292>>, <<8294, 8303>>, <<8305, 8305>>, <<8319, 8319>>,
     <<8336, 8348>>, <<8400, 8432>>, <<11388, 11389>>, <<11503, 11505>>,
     <<11631, 11631>>, <<11647, 11647>>, <<11744, 11775>>, <<11823, 11823>>,
     <<12293, 12293>>, <<12330, 12333>>, <<12337, 12341>>, <<12347, 12347>>,
     <<12441, 12446>>, <<12540, 12542>>, <<40981, 40981>>, <<42232, 42237>>,
     <<42508, 42508>>, <<42607, 42610>>, <<42612, 42621>>, <<42623, 42623>>,
     <<42652, 42655>>, <<42736, 42737>>, <<42752, 42785>>, <<42864, 42864>>,
     <<42888, 42890>>, <<42994, 42996>>, <<43000, 43001>>, <<43010, 43010>>,
     <<43014, 43014>>, <<43019, 43019>>, <<43045, 43046>>, <<43052, 43052>>,
     <<43204, 43205>>, <<43232, 43249>>, <<43263, 43263>>, <<43302, 43309>>,
     <<43335, 43345>>, <<43392, 43394>>, <<43443, 43443>>, <<43446, 43449>>,
     <<43452, 43453>>, <<43471, 43471>>, <<43493, 43494>>, <<43561, 43566>>,
     <<43569, 43570>>, <<43573, 43574>>, <<43587, 43587>>, <<43596, 43596>>,
     <<43632, 43632>>, <<43644, 43644>>, <<43696, 43696>>, <<43698, 43700>>,
     <<43703, 43704>>, <<43710, 43711>>, <<43713, 43713>>, <<43741, 43741>>,
     <<43756, 43757>>, <<43763, 43764>>, <<43766, 43766>>, <<43867, 43871>>,
     <<43881, 43883>>, <<44005, 44005>>, <<44008, 44008>>, <<44013, 44013>>,
     <<64286, 64286>>, <<64434, 64450>>, <<65024, 65039>>, <<65043, 65043>>,
     <<65056, 65071>>, <<65106, 65106>>, <<65109, 65109>>, <<65279, 65279>>,
     <<65287, 65287>>, <<65294, 65294>>, <<65306, 65306>>, <<65342, 65342>>,
     <<65344, 65344>>, <<65392, 65392>>, <<65438, 65439>>, <<65507, 65507>>,
     <<65529, 65531>>, <<66045, 66045>>, <<66272, 66272>>, <<66422, 66426>>,
     <<67456, 67461>>, <<67463, 67504>>, <<67506, 67514>>, <<68097, 68099>>,
     <<68101, 68102>>, <<68108, 68111>>, <<68152, 68154>>, <<68159, 68159>>,
     <<68325, 68326>>, <<68900, 68903>>, <<69291, 69292>>, <<69446, 69456>>,
     <<69506, 69509>>, <<69633, 69633>>, <<69688, 69702>>, <<69744, 69744>>,
     <<69747, 69748>>, <<69759, 69761>>, <<69811, 69814>>, <<69817, 69818>>,
     <<69821, 69821>>, <<69826, 69826>>, <<69837, 69837>>, <<69888, 69890>>,
     <<69927, 69931>>, <<69933, 69940>>, <<70003, 70003>>, <<70016, 70017>>,
     <<70070, 70078>>, <<70089, 70092>>, <<70095, 70095>>, <<70191, 70193>>,
     <<70196, 70196>>, <<70198, 70199>>, <<70206, 70206>>, <<70367, 70367>>,
     <<70371, 70378>>, <<70400, 70401>>, <<70459, 70460>>, <<70464, 70464>>,
     <<70502, 70508>>, <<70512, 70516>>, <<70712, 70719>>, <<70722, 70724>>,
     <<70726, 70726>>, <<70750, 70750>>, <<70835, 70840>>, <<70842, 70842>>,
     <<70847, 70848>>, <<70850, 70851>>, <<71090, 71093>>, <<71100, 71101>>,
     <<71103, 71104>>, <<71132, 71133>>, <<71219, 71226>>, <<71229, 71229>>,
     <<71231, 71232>>, <<71339, 71339>>, <<71341, 71341>>, <<71344, 71349>>,
     <<71351, 71351>>, <<71453, 71455>>, <<71458, 71461>>, <<71463, 71467>>,
     <<71727, 71735>>, <<71737, 71738>>, <<71995, 71996>>, <<71998, 71998>>,
     <<72003, 72003>>, <<72148, 72151>>, <<72154, 72155>>, <<72160, 72160>>,
     <<72193, 72202>>, <<72243, 72248>>, <<72251, 72254>>, <<72263, 72263>>,
     <<72273, 72278>>, <<72281, 72283>>, <<72330, 72342>>, <<72344, 72345>>,
     <<72752, 72758>>, <<72760, 72765>>, <<72767, 72767>>, <<72850, 72871>>,
     <<72874, 72880>>, <<72882, 72883>>, <<72885, 72886>>, <<73009, 73014>>,
     <<73018, 73018>>, <<73020, 73021>>, <<73023, 73029>>, <<73031, 73031>>,
     <<73104, 73105>>, <<73109, 73109>>, <<73111, 73111>>, <<73459, 73460>>,
     <<78896, 78904>>, <<92912, 92916>>, <<92976, 92982>>, <<92992, 92995>>,
     <<94031, 94031>>, <<94095, 94111>>, <<94176, 94177>>, <<94179, 94180>>,
     <<110576, 110579>>, <<110581, 110587>>, <<110589, 110590>>,
     <<113821, 113822>>, <<113824, 113827>>, <<118528, 118573>>,
     <<118576, 118598>>, <<119143, 119145>>, <<119155, 119170>>,
     <<119173, 119179>>, <<119210, 119213>>, <<119362, 119364>>,
     <<121344, 121398>>, <<121403, 121452>>, <<121461, 121461>>,
     <<121476, 121476>>, <<121499, 121503>>, <<121505, 121519>>,
     <<122880, 122886>>, <<122888, 122904>>, <<122907, 122913>>,
     <<122915, 122916>>, <<122918, 122922>>, <<123184, 123197>>,
     <<123566, 123566>>, <<123628, 123631>>, <<125136, 125142>>,
     <<125252, 125259>>, <<127995, 127999>>, <<917505, 917505>>,
     <<917536, 917631>>, <<917760, 917999>>}

\* the cased characters that are not case-ignorable, as ranges
Cased ==
    {<<65, 90>>, <<97, 122>>, <<170, 170>>, <<181, 181>>, <<186, 186>>,
     <<192, 214>>, <<216, 246>>, <<248, 442>>, <<444, 447>>, <<452, 659>>,
     <<661, 687>>, <<880, 883>>, <<886, 887>>, <<891, 893>>, <<895, 895>>,
     <<902, 902>>, <<904, 906>>, <<908, 908>>, <<910, 929>>, <<931, 1013>>,
     <<1015, 1153>>, <<1162, 1327>>, <<1329, 1366>>, <<1376, 1416>>,
     <<4256, 4293>>, <<4295, 4295>>, <<4301, 4301>>, <<4304, 4346>>,
     <<4349, 4351>>, <<5024, 5109>>, <<5112, 5117>>, <<7296, 7304>>,
     <<7312, 7354>>, <<7357, 7359>>, <<7424, 7467>>, <<7531, 7543>>,
     <<7545, 7578>>, <<7680, 7957>>, <<7960, 7965>>, <<7968, 8005>>,
     <<8008, 8013>>, <<8016, 8023>>, <<8025, 8025>>, <<8027, 8027>>,
     <<8029, 8029>>, <<8031, 8061>>, <<8064, 8116>>, <<8118, 8124>>,
     <<8126, 8126>>, <<8130, 8132>>, <<8134, 8140>>, <<8144, 8147>>,
     <<8150, 8155>>, <<8160, 8172>>, <<8178, 8180>>, <<8182, 8188>>,
     <<8450, 8450>>, <<8455, 8455>>, <<8458, 8467>>, <<8469, 8469>>,
     <<8473, 8477>>, <<8484, 8484>>, <<8486, 8486>>, <<8488, 8488>>,
     <<8490, 8493>>, <<8495, 8500>>, <<8505, 8505>>, <<8508, 8511>>,
     <<8517, 8521>>, <<8526, 8526>>, <<8544, 8575>>, <<8579, 8580>>,
     <<9398, 9449>>, <<11264, 11387>>, <<11390, 11492>>, <<11499, 11502>>,
     <<11506, 11507>>, <<11520, 11557>>, <<11559, 11559>>, <<11565, 11565>>,
     <<42560, 42605>>, <<42624, 42651>>, <<42786, 42863>>, <<42865, 42887>>,
     <<42891, 42894>>, <<42896, 42954>>, <<42960, 42961>>, <<42963, 42963>>,
     <<42965, 42969>>, <<42997, 42998>>, <<43002, 43002>>, <<43824, 43866>>,
     <<43872, 43880>>, <<43888, 43967>>, <<64256, 64262>>, <<64275, 64279>>,
     <<65313, 65338>>, <<65345, 65370>>, <<66560, 66639>>, <<66736, 66771>>,
     <<66776, 66811>>, <<66928, 66938>>, <<66940, 66954>>, <<66956, 66962>>,
     <<66964, 66965>>, <<66967, 66977>>, <<66979, 66993>>, <<66995, 67001>>,
     <<67003, 67004>>, <<68736, 68786>>, <<68800, 68850>>, <<71840, 71903>>,
     <<93760, 93823>>, <<119808, 119892>>, <<119894, 119964>>,
     <<119966, 119967>>, <<119970, 119970>>, <<119973, 119974>>,
     <<119977, 119980>>, <<119982, 119993>>, <<119995, 119995>>,
     <<119997, 120003>>, <<120005, 120069>>, <<120071, 120074>>,
     <<120077, 120084>>, <<120086, 120092>>, <<120094, 120121>>,
     <<120123, 120126>>, <<120128, 120132>>, <<120134, 120134>>,
     <<120138, 120144>>, <<120146, 120485>>, <<120488, 120512>>,
     <<120514, 120538>>, <<120540, 120570>>, <<120572, 120596>>,
     <<120598, 120628>>, <<120630, 120654>>, <<120656, 120686>>,
     <<120688, 120712>>, <<120714, 120744>>, <<120746, 120770>>,
     <<120772, 120779>>, <<122624, 122633>>, <<122635, 122654>>,
     <<125184, 125251>>, <<127280, 127305>>, <<127312, 127337>>,
     <<127344, 127369>>}

\* the capital sigma at i ends a word: a cased character comes before it
\* and none after it, case-ignorable characters skipped on both sides
FinalSigma(s, i) ==
    LET before == {j \in 1..(i - 1) : ~InRanges(s[j], CaseIgnorable)}
        after == {j \in (i + 1)..Len(s) : ~InRanges(s[j], CaseIgnorable)}
    IN  /\ before # {}
        /\ InRanges(s[Max(before)], Cased)
        /\ after = {} \/ ~InRanges(s[Min(after)], Cased)

\* the lowercase form of the character at i: one character, but two for
\* the dotted capital I, and the sigma by its place in the word
LowerAt(s, i) ==
    IF s[i] = 931 THEN <<IF FinalSigma(s, i) THEN 962 ELSE 963>>
    ELSE IF s[i] = 304 THEN <<105, 775>>
    ELSE <<LowerChar(s[i])>>

RECURSIVE LowerRange(_, _, _)
LowerRange(s, lo, hi) ==
    IF lo > hi THEN << >>
    ELSE IF lo = hi THEN LowerAt(s, lo)
    ELSE LowerRange(s, lo, (lo + hi) \div 2) \o LowerRange(s, ((lo + hi) \div 2) + 1, hi)

\* s.lower()
lower(s) == LowerRange(s, 1, Len(s))

----------------------------------------------------------------------------
(* Scanning a text *)

\* the character at position i, -1 outside the text (where rawdata[i:i+1]
\* is empty)
At(c, i) == IF i >= 1 /\ i <= Len(c) THEN c[i] ELSE -1

\* the first position >= i whose character is not in S, Len(c) + 1 if none
SkipWhile(c, i, S) ==
    IF \A k \in i..Len(c) : c[k] \in S
    THEN Len(c) + 1
    ELSE CHOOSE k \in i..Len(c) :
            c[k] \notin S /\ \A m \in i..(k - 1) : c[m] \in S

\* the first position >= i whose character is in S, Len(c) + 1 if none
SkipUntil(c, i, S) ==
    IF \A k \in i..Len(c) : c[k] \notin S
    THEN Len(c) + 1
    ELSE CHOOSE k \in i..Len(c) :
            c[k] \in S /\ \A m \in i..(k - 1) : c[m] \notin S

\* c[lo-1:hi], cut at the end of the text
Slice(c, lo, hi) == SubSeq(c, lo, IF hi > Len(c) THEN Len(c) ELSE hi)

\* the position after the first ">" at or after i, 0 if there is none
AfterGt(c, i) == IF Find(c, Text(">"), i) = 0 THEN 0 ELSE Find(c, Text(">"), i) + 1

----------------------------------------------------------------------------
(* html.unescape, which parse_starttag applies to attribute values *)

\* html.entities.html5: the named character references and their
\* characters
html5 ==
    {<<"AElig", <<198>>>>, <<"AElig;", <<198>>>>, <<"AMP", <<38>>>>,
     <<"AMP;", <<38>>>>, <<"Aacute", <<193>>>>, <<"Aacute;", <<193>>>>,
     <<"Abreve;", <<258>>>>, <<"Acirc", <<194>>>>, <<"Acirc;", <<194>>>>,
     <<"Acy;", <<1040>>>>, <<"Afr;", <<120068>>>>, <<"Agrave", <<192>>>>,
     <<"Agrave;", <<192>>>>, <<"Alpha;", <<913>>>>, <<"Amacr;", <<256>>>>,
     <<"And;", <<10835>>>>, <<"Aogon;", <<260>>>>, <<"Aopf;", <<120120>>>>,
     <<"ApplyFunction;", <<8289>>>>, <<"Aring", <<197>>>>,
     <<"Aring;", <<197>>>>, <<"Ascr;", <<119964>>>>,
     <<"Assign;", <<8788>>>>, <<"Atilde", <<195>>>>, <<"Atilde;", <<195>>>>,
     <<"Auml", <<196>>>>, <<"Auml;", <<196>>>>, <<"Backslash;", <<8726>>>>,
     <<"Barv;", <<10983>>>>, <<"Barwed;", <<8966>>>>, <<"Bcy;", <<1041>>>>,
     <<"Because;", <<8757>>>>, <<"Bernoullis;", <<8492>>>>,
     <<"Beta;", <<914>>>>, <<"Bfr;", <<120069>>>>, <<"Bopf;", <<120121>>>>,
     <<"Breve;", <<728>>>>, <<"Bscr;", <<8492>>>>, <<"Bumpeq;", <<8782>>>>,
     <<"CHcy;", <<1063>>>>, <<"COPY", <<169>>>>, <<"COPY;", <<169>>>>,
     <<"Cacute;", <<262>>>>, <<"Cap;", <<8914>>>>,
     <<"CapitalDifferentialD;", <<8517>>>>, <<"Cayleys;", <<8493>>>>,
     <<"Ccaron;", <<268>>>>, <<"Ccedil", <<199>>>>, <<"Ccedil;", <<199>>>>,
     <<"Ccirc;", <<264>>>>, <<"Cconint;", <<8752>>>>, <<"Cdot;", <<266>>>>,
     <<"Cedilla;", <<184>>>>, <<"CenterDot;", <<183>>>>,
     <<"Cfr;", <<8493>>>>, <<"Chi;", <<935>>>>, <<"CircleDot;", <<8857>>>>,
     <<"CircleMinus;", <<8854>>>>, <<"CirclePlus;", <<8853>>>>,
     <<"CircleTimes;", <<8855>>>>,
     <<"ClockwiseContourIntegral;", <<8754>>>>,
     <<"CloseCurlyDoubleQuote;", <<8221>>>>,
     <<"CloseCurlyQuote;", <<8217>>>>, <<"Colon;", <<8759>>>>,
     <<"Colone;", <<10868>>>>, <<"Congruent;", <<8801>>>>,
     <<"Conint;", <<8751>>>>, <<"ContourIntegral;", <<8750>>>>,
     <<"Copf;", <<8450>>>>, <<"Coproduct;", <<8720>>>>,
     <<"CounterClockwiseContourIntegral;", <<8755>>>>,
     <<"Cross;", <<10799>>>>, <<"Cscr;", <<119966>>>>, <<"Cup;", <<8915>>>>,
     <<"CupCap;", <<8781>>>>, <<"DD;", <<8517>>>>,
     <<"DDotrahd;", <<10513>>>>, <<"DJcy;", <<1026>>>>,
     <<"DScy;", <<1029>>>>, <<"DZcy;", <<1039>>>>, <<"Dagger;", <<8225>>>>,
     <<"Darr;", <<8609>>>>, <<"Dashv;", <<10980>>>>, <<"Dcaron;", <<270>>>>,
     <<"Dcy;", <<1044>>>>, <<"Del;", <<8711>>>>, <<"Delta;", <<916>>>>,
     <<"Dfr;", <<120071>>>>, <<"DiacriticalAcute;", <<180>>>>,
     <<"DiacriticalDot;", <<729>>>>, <<"DiacriticalDoubleAcute;", <<733>>>>,
     <<"DiacriticalGrave;", <<96>>>>, <<"DiacriticalTilde;", <<732>>>>,
     <<"Diamond;", <<8900>>>>, <<"DifferentialD;", <<8518>>>>,
     <<"Dopf;", <<120123>>>>, <<"Dot;", <<168>>>>, <<"DotDot;", <<8412>>>>,
     <<"DotEqual;", <<8784>>>>, <<"DoubleContourIntegral;", <<8751>>>>,
     <<"DoubleDot;", <<168>>>>, <<"DoubleDownArrow;", <<8659>>>>,
     <<"DoubleLeftArrow;", <<8656>>>>,
     <<"DoubleLeftRightArrow;", <<8660>>>>, <<"DoubleLeftTee;", <<10980>>>>,
     <<"DoubleLongLeftArrow;", <<10232>>>>,
     <<"DoubleLongLeftRightArrow;", <<10234>>>>,
     <<"DoubleLongRightArrow;", <<10233>>>>,
     <<"DoubleRightArrow;", <<8658>>>>, <<"DoubleRightTee;", <<8872>>>>,
     <<"DoubleUpArrow;", <<8657>>>>, <<"DoubleUpDownArrow;", <<8661>>>>,
     <<"DoubleVerticalBar;", <<8741>>>>, <<"DownArrow;", <<8595>>>>,
     <<"DownArrowBar;", <<10515>>>>, <<"DownArrowUpArrow;", <<8693>>>>,
     <<"DownBreve;", <<785>>>>, <<"DownLeftRightVector;", <<10576>>>>,
     <<"DownLeftTeeVector;", <<10590>>>>, <<"DownLeftVector;", <<8637>>>>,
     <<"DownLeftVectorBar;", <<10582>>>>,
     <<"DownRightTeeVector;", <<10591>>>>, <<"DownRightVector;", <<8641>>>>,
     <<"DownRightVectorBar;", <<10583>>>>, <<"DownTee;", <<8868>>>>,
     <<"DownTeeArrow;", <<8615>>>>, <<"Downarrow;", <<8659>>>>,
     <<"Dscr;", <<119967>>>>, <<"Dstrok;", <<272>>>>, <<"ENG;", <<330>>>>,
     <<"ETH", <<208>>>>, <<"ETH;", <<208>>>>, <<"Eacute", <<201>>>>,
     <<"Eacute;", <<201>>>>, <<"Ecaron;", <<282>>>>, <<"Ecirc", <<202>>>>,
     <<"Ecirc;", <<202>>>>, <<"Ecy;", <<1069>>>>, <<"Edot;", <<278>>>>,
     <<"Efr;", <<120072>>>>, <<"Egrave", <<200>>>>, <<"Egrave;", <<200>>>>,
     <<"Element;", <<8712>>>>, <<"Emacr;", <<274>>>>,
     <<"EmptySmallSquare;", <<9723>>>>,
     <<"EmptyVerySmallSquare;", <<9643>>>>, <<"Eogon;", <<280>>>>,
     <<"Eopf;", <<120124>>>>, <<"Epsilon;", <<917>>>>,
     <<"Equal;", <<10869>>>>, <<"EqualTilde;", <<8770>>>>,
     <<"Equilibrium;", <<8652>>>>, <<"Escr;", <<8496>>>>,
     <<"Esim;", <<10867>>>>, <<"Eta;", <<919>>>>, <<"Euml", <<203>>>>,
     <<"Euml;", <<203>>>>, <<"Exists;", <<8707>>>>,
     <<"ExponentialE;", <<8519>>>>, <<"Fcy;", <<1060>>>>,
     <<"Ffr;", <<120073>>>>, <<"FilledSmallSquare;", <<9724>>>>,
     <<"FilledVerySmallSquare;", <<9642>>>>, <<"Fopf;", <<120125>>>>,
     <<"ForAll;", <<8704>>>>, <<"Fouriertrf;", <<8497>>>>,
     <<"Fscr;", <<8497>>>>, <<"GJcy;", <<1027>>>>, <<"GT", <<62>>>>,
     <<"GT;", <<62>>>>, <<"Gamma;", <<915>>>>, <<"Gammad;", <<988>>>>,
     <<"Gbreve;", <<286>>>>, <<"Gcedil;", <<290>>>>, <<"Gcirc;", <<284>>>>,
     <<"Gcy;", <<1043>>>>, <<"Gdot;", <<288>>>>, <<"Gfr;", <<120074>>>>,
     <<"Gg;", <<8921>>>>, <<"Gopf;", <<120126>>>>,
     <<"GreaterEqual;", <<8805>>>>, <<"GreaterEqualLess;", <<8923>>>>,
     <<"GreaterFullEqual;", <<8807>>>>, <<"GreaterGreater;", <<10914>>>>,
     <<"GreaterLess;", <<8823>>>>, <<"GreaterSlantEqual;", <<10878>>>>,
     <<"GreaterTilde;", <<8819>>>>, <<"Gscr;", <<119970>>>>,
     <<"Gt;", <<8811>>>>, <<"HARDcy;", <<1066>>>>, <<"Hacek;", <<711>>>>,
     <<"Hat;", <<94>>>>, <<"Hcirc;", <<292>>>>, <<"Hfr;", <<8460>>>>,
     <<"HilbertSpace;", <<8459>>>>, <<"Hopf;", <<8461>>>>,
     <<"HorizontalLine;", <<9472>>>>, <<"Hscr;", <<8459>>>>,
     <<"Hstrok;", <<294>>>>, <<"HumpDownHump;", <<8782>>>>,
     <<"HumpEqual;", <<8783>>>>, <<"IEcy;", <<1045>>>>,
     <<"IJlig;", <<306>>>>, <<"IOcy;", <<1025>>>>, <<"Iacute", <<205>>>>,
     <<"Iacute;", <<205>>>>, <<"Icirc", <<206>>>>, <<"Icirc;", <<206>>>>,
     <<"Icy;", <<1048>>>>, <<"Idot;", <<304>>>>, <<"Ifr;", <<8465>>>>,
     <<"Igrave", <<204>>>>, <<"Igrave;", <<204>>>>, <<"Im;", <<8465>>>>,
     <<"Imacr;", <<298>>>>, <<"ImaginaryI;", <<8520>>>>,
     <<"Implies;", <<8658>>>>, <<"Int;", <<8748>>>>,
     <<"Integral;", <<8747>>>>, <<"Intersection;", <<8898>>>>,
     <<"InvisibleComma;", <<8291>>>>, <<"InvisibleTimes;", <<8290>>>>,
     <<"Iogon;", <<302>>>>, <<"Iopf;", <<120128>>>>, <<"Iota;", <<921>>>>,
     <<"Iscr;", <<8464>>>>, <<"Itilde;", <<296>>>>, <<"Iukcy;", <<1030>>>>,
     <<"Iuml", <<207>>>>, <<"Iuml;", <<207>>>>, <<"Jcirc;", <<308>>>>,
     <<"Jcy;", <<1049>>>>, <<"Jfr;", <<120077>>>>, <<"Jopf;", <<120129>>>>,
     <<"Jscr;", <<119973>>>>, <<"Jsercy;", <<1032>>>>,
     <<"Jukcy;", <<1028>>>>, <<"KHcy;", <<1061>>>>, <<"KJcy;", <<1036>>>>,
     <<"Kappa;", <<922>>>>, <<"Kcedil;", <<310>>>>, <<"Kcy;", <<1050>>>>,
     <<"Kfr;", <<120078>>>>, <<"Kopf;", <<120130>>>>,
     <<"Kscr;", <<119974>>>>, <<"LJcy;", <<1033>>>>, <<"LT", <<60>>>>,
     <<"LT;", <<60>>>>, <<"Lacute;", <<313>>>>, <<"Lambda;", <<923>>>>,
     <<"Lang;", <<10218>>>>, <<"Laplacetrf;", <<8466>>>>,
     <<"Larr;", <<8606>>>>, <<"Lcaron;", <<317>>>>, <<"Lcedil;", <<315>>>>,
     <<"Lcy;", <<1051>>>>, <<"LeftAngleBracket;", <<10216>>>>,
     <<"LeftArrow;", <<8592>>>>, <<"LeftArrowBar;", <<8676>>>>,
     <<"LeftArrowRightArrow;", <<8646>>>>, <<"LeftCeiling;", <<8968>>>>,
     <<"LeftDoubleBracket;", <<10214>>>>,
     <<"LeftDownTeeVector;", <<10593>>>>, <<"LeftDownVector;", <<8643>>>>,
     <<"LeftDownVectorBar;", <<10585>>>>, <<"LeftFloor;", <<8970>>>>,
     <<"LeftRightArrow;", <<8596>>>>, <<"LeftRightVector;", <<10574>>>>,
     <<"LeftTee;", <<8867>>>>, <<"LeftTeeArrow;", <<8612>>>>,
     <<"LeftTeeVector;", <<10586>>>>, <<"LeftTriangle;", <<8882>>>>,
     <<"LeftTriangleBar;", <<10703>>>>, <<"LeftTriangleEqual;", <<8884>>>>,
     <<"LeftUpDownVector;", <<10577>>>>, <<"LeftUpTeeVector;", <<10592>>>>,
     <<"LeftUpVector;", <<8639>>>>, <<"LeftUpVectorBar;", <<10584>>>>,
     <<"LeftVector;", <<8636>>>>, <<"LeftVectorBar;", <<10578>>>>,
     <<"Leftarrow;", <<8656>>>>, <<"Leftrightarrow;", <<8660>>>>,
     <<"LessEqualGreater;", <<8922>>>>, <<"LessFullEqual;", <<8806>>>>,
     <<"LessGreater;", <<8822>>>>, <<"LessLess;", <<10913>>>>,
     <<"LessSlantEqual;", <<10877>>>>, <<"LessTilde;", <<8818>>>>,
     <<"Lfr;", <<120079>>>>, <<"Ll;", <<8920>>>>,
     <<"Lleftarrow;", <<8666>>>>, <<"Lmidot;", <<319>>>>,
     <<"LongLeftArrow;", <<10229>>>>, <<"LongLeftRightArrow;", <<10231>>>>,
     <<"LongRightArrow;", <<10230>>>>, <<"Longleftarrow;", <<10232>>>>,
     <<"Longleftrightarrow;", <<10234>>>>, <<"Longrightarrow;", <<10233>>>>,
     <<"Lopf;", <<120131>>>>, <<"LowerLeftArrow;", <<8601>>>>,
     <<"LowerRightArrow;", <<8600>>>>, <<"Lscr;", <<8466>>>>,
     <<"Lsh;", <<8624>>>>, <<"Lstrok;", <<321>>>>, <<"Lt;", <<8810>>>>,
     <<"Map;", <<10501>>>>, <<"Mcy;", <<1052>>>>,
     <<"MediumSpace;", <<8287>>>>, <<"Mellintrf;", <<8499>>>>,
     <<"Mfr;", <<120080>>>>, <<"MinusPlus;", <<8723>>>>,
     <<"Mopf;", <<120132>>>>, <<"Mscr;", <<8499>>>>, <<"Mu;", <<924>>>>,
     <<"NJcy;", <<1034>>>>, <<"Nacute;", <<323>>>>, <<"Ncaron;", <<327>>>>,
     <<"Ncedil;", <<325>>>>, <<"Ncy;", <<1053>>>>,
     <<"NegativeMediumSpace;", <<8203>>>>,
     <<"NegativeThickSpace;", <<8203>>>>,
     <<"NegativeThinSpace;", <<8203>>>>,
     <<"NegativeVeryThinSpace;", <<8203>>>>,
     <<"NestedGreaterGreater;", <<8811>>>>, <<"NestedLessLess;", <<8810>>>>,
     <<"NewLine;", <<10>>>>, <<"Nfr;", <<120081>>>>,
     <<"NoBreak;", <<8288>>>>, <<"NonBreakingSpace;", <<160>>>>,
     <<"Nopf;", <<8469>>>>, <<"Not;", <<10988>>>>,
     <<"NotCongruent;", <<8802>>>>, <<"NotCupCap;", <<8813>>>>,
     <<"NotDoubleVerticalBar;", <<8742>>>>, <<"NotElement;", <<8713>>>>,
     <<"NotEqual;", <<8800>>>>, <<"NotEqualTilde;", <<8770, 824>>>>,
     <<"NotExists;", <<8708>>>>, <<"NotGreater;", <<8815>>>>,
     <<"NotGreaterEqual;", <<8817>>>>,
     <<"NotGreaterFullEqual;", <<8807, 824>>>>,
     <<"NotGreaterGreater;", <<8811, 824>>>>,
     <<"NotGreaterLess;", <<8825>>>>,
     <<"NotGreaterSlantEqual;", <<10878, 824>>>>,
     <<"NotGreaterTilde;", <<8821>>>>,
     <<"NotHumpDownHump;", <<8782, 824>>>>,
     <<"NotHumpEqual;", <<8783, 824>>>>, <<"NotLeftTriangle;", <<8938>>>>,
     <<"NotLeftTriangleBar;", <<10703, 824>>>>,
     <<"NotLeftTriangleEqual;", <<8940>>>>, <<"NotLess;", <<8814>>>>,
     <<"NotLessEqual;", <<8816>>>>, <<"NotLessGreater;", <<8824>>>>,
     <<"NotLessLess;", <<8810, 824>>>>,
     <<"NotLessSlantEqual;", <<10877, 824>>>>,
     <<"NotLessTilde;", <<8820>>>>,
     <<"NotNestedGreaterGreater;", <<10914, 824>>>>,
     <<"NotNestedLessLess;", <<10913, 824>>>>, <<"NotPrecedes;", <<8832>>>>,
     <<"NotPrecedesEqual;", <<10927, 824>>>>,
     <<"NotPrecedesSlantEqual;", <<8928>>>>,
     <<"NotReverseElement;", <<8716>>>>, <<"NotRightTriangle;", <<8939>>>>,
     <<"NotRightTriangleBar;", <<10704, 824>>>>,
     <<"NotRightTriangleEqual;", <<8941>>>>,
     <<"NotSquareSubset;", <<8847, 824>>>>,
     <<"NotSquareSubsetEqual;", <<8930>>>>,
     <<"NotSquareSuperset;", <<8848, 824>>>>,
     <<"NotSquareSupersetEqual;", <<8931>>>>,
     <<"NotSubset;", <<8834, 8402>>>>, <<"NotSubsetEqual;", <<8840>>>>,
     <<"NotSucceeds;", <<8833>>>>, <<"NotSucceedsEqual;", <<10928, 824>>>>,
     <<"NotSucceedsSlantEqual;", <<8929>>>>,
     <<"NotSucceedsTilde;", <<8831, 824>>>>,
     <<"NotSuperset;", <<8835, 8402>>>>, <<"NotSupersetEqual;", <<8841>>>>,
     <<"NotTilde;", <<8769>>>>, <<"NotTildeEqual;", <<8772>>>>,
     <<"NotTildeFullEqual;", <<8775>>>>, <<"NotTildeTilde;", <<8777>>>>,
     <<"NotVerticalBar;", <<8740>>>>, <<"Nscr;", <<119977>>>>,
     <<"Ntilde", <<209>>>>, <<"Ntilde;", <<209>>>>, <<"Nu;", <<925>>>>,
     <<"OElig;", <<338>>>>, <<"Oacute", <<211>>>>, <<"Oacute;", <<211>>>>,
     <<"Ocirc", <<212>>>>, <<"Ocirc;", <<212>>>>, <<"Ocy;", <<1054>>>>,
     <<"Odblac;", <<336>>>>, <<"Ofr;", <<120082>>>>, <<"Ograve", <<210>>>>,
     <<"Ograve;", <<210>>>>, <<"Omacr;", <<332>>>>, <<"Omega;", <<937>>>>,
     <<"Omicron;", <<927>>>>, <<"Oopf;", <<120134>>>>,
     <<"OpenCurlyDoubleQuote;", <<8220>>>>, <<"OpenCurlyQuote;", <<8216>>>>,
     <<"Or;", <<10836>>>>, <<"Oscr;", <<119978>>>>, <<"Oslash", <<216>>>>,
     <<"Oslash;", <<216>>>>, <<"Otilde", <<213>>>>, <<"Otilde;", <<213>>>>,
     <<"Otimes;", <<10807>>>>, <<"Ouml", <<214>>>>, <<"Ouml;", <<214>>>>,
     <<"OverBar;", <<8254>>>>, <<"OverBrace;", <<9182>>>>,
     <<"OverBracket;", <<9140>>>>, <<"OverParenthesis;", <<9180>>>>,
     <<"PartialD;", <<8706>>>>, <<"Pcy;", <<1055>>>>,
     <<"Pfr;", <<120083>>>>, <<"Phi;", <<934>>>>, <<"Pi;", <<928>>>>,
     <<"PlusMinus;", <<177>>>>, <<"Poincareplane;", <<8460>>>>,
     <<"Popf;", <<8473>>>>, <<"Pr;", <<10939>>>>, <<"Precedes;", <<8826>>>>,
     <<"PrecedesEqual;", <<10927>>>>, <<"PrecedesSlantEqual;", <<8828>>>>,
     <<"PrecedesTilde;", <<8830>>>>, <<"Prime;", <<8243>>>>,
     <<"Product;", <<8719>>>>, <<"Proportion;", <<8759>>>>,
     <<"Proportional;", <<8733>>>>, <<"Pscr;", <<119979>>>>,
     <<"Psi;", <<936>>>>, <<"QUOT", <<34>>>>, <<"QUOT;", <<34>>>>,
     <<"Qfr;", <<120084>>>>, <<"Qopf;", <<8474>>>>, <<"Qscr;", <<119980>>>>,
     <<"RBarr;", <<10512>>>>, <<"REG", <<174>>>>, <<"REG;", <<174>>>>,
     <<"Racute;", <<340>>>>, <<"Rang;", <<10219>>>>, <<"Rarr;", <<8608>>>>,
     <<"Rarrtl;", <<10518>>>>, <<"Rcaron;", <<344>>>>,
     <<"Rcedil;", <<342>>>>, <<"Rcy;", <<1056>>>>, <<"Re;", <<8476>>>>,
     <<"ReverseElement;", <<8715>>>>, <<"ReverseEquilibrium;", <<8651>>>>,
     <<"ReverseUpEquilibrium;", <<10607>>>>, <<"Rfr;", <<8476>>>>,
     <<"Rho;", <<929>>>>, <<"RightAngleBracket;", <<10217>>>>,
     <<"RightArrow;", <<8594>>>>, <<"RightArrowBar;", <<8677>>>>,
     <<"RightArrowLeftArrow;", <<8644>>>>, <<"RightCeiling;", <<8969>>>>,
     <<"RightDoubleBracket;", <<10215>>>>,
     <<"RightDownTeeVector;", <<10589>>>>, <<"RightDownVector;", <<8642>>>>,
     <<"RightDownVectorBar;", <<10581>>>>, <<"RightFloor;", <<8971>>>>,
     <<"RightTee;", <<8866>>>>, <<"RightTeeArrow;", <<8614>>>>,
     <<"RightTeeVector;", <<10587>>>>, <<"RightTriangle;", <<8883>>>>,
     <<"RightTriangleBar;", <<10704>>>>,
     <<"RightTriangleEqual;", <<8885>>>>,
     <<"RightUpDownVector;", <<10575>>>>,
     <<"RightUpTeeVector;", <<10588>>>>, <<"RightUpVector;", <<8638>>>>,
     <<"RightUpVectorBar;", <<10580>>>>, <<"RightVector;", <<8640>>>>,
     <<"RightVectorBar;", <<10579>>>>, <<"Rightarrow;", <<8658>>>>,
     <<"Ropf;", <<8477>>>>, <<"RoundImplies;", <<10608>>>>,
     <<"Rrightarrow;", <<8667>>>>, <<"Rscr;", <<8475>>>>,
     <<"Rsh;", <<8625>>>>, <<"RuleDelayed;", <<10740>>>>,
     <<"SHCHcy;", <<1065>>>>, <<"SHcy;", <<1064>>>>,
     <<"SOFTcy;", <<1068>>>>, <<"Sacute;", <<346>>>>, <<"Sc;", <<10940>>>>,
     <<"Scaron;", <<352>>>>, <<"Scedil;", <<350>>>>, <<"Scirc;", <<348>>>>,
     <<"Scy;", <<1057>>>>, <<"Sfr;", <<120086>>>>,
     <<"ShortDownArrow;", <<8595>>>>, <<"ShortLeftArrow;", <<8592>>>>,
     <<"ShortRightArrow;", <<8594>>>>, <<"ShortUpArrow;", <<8593>>>>,
     <<"Sigma;", <<931>>>>, <<"SmallCircle;", <<8728>>>>,
     <<"Sopf;", <<120138>>>>, <<"Sqrt;", <<8730>>>>,
     <<"Square;", <<9633>>>>, <<"SquareIntersection;", <<8851>>>>,
     <<"SquareSubset;", <<8847>>>>, <<"SquareSubsetEqual;", <<8849>>>>,
     <<"SquareSuperset;", <<8848>>>>, <<"SquareSupersetEqual;", <<8850>>>>,
     <<"SquareUnion;", <<8852>>>>, <<"Sscr;", <<119982>>>>,
     <<"Star;", <<8902>>>>, <<"Sub;", <<8912>>>>, <<"Subset;", <<8912>>>>,
     <<"SubsetEqual;", <<8838>>>>, <<"Succeeds;", <<8827>>>>,
     <<"SucceedsEqual;", <<10928>>>>, <<"SucceedsSlantEqual;", <<8829>>>>,
     <<"SucceedsTilde;", <<8831>>>>, <<"SuchThat;", <<8715>>>>,
     <<"Sum;", <<8721>>>>, <<"Sup;", <<8913>>>>, <<"Superset;", <<8835>>>>,
     <<"SupersetEqual;", <<8839>>>>, <<"Supset;", <<8913>>>>,
     <<"THORN", <<222>>>>, <<"THORN;", <<222>>>>, <<"TRADE;", <<8482>>>>,
     <<"TSHcy;", <<1035>>>>, <<"TScy;", <<1062>>>>, <<"Tab;", <<9>>>>,
     <<"Tau;", <<932>>>>, <<"Tcaron;", <<356>>>>, <<"Tcedil;", <<354>>>>,
     <<"Tcy;", <<1058>>>>, <<"Tfr;", <<120087>>>>,
     <<"Therefore;", <<8756>>>>, <<"Theta;", <<920>>>>,
     <<"ThickSpace;", <<8287, 8202>>>>, <<"ThinSpace;", <<8201>>>>,
     <<"Tilde;", <<8764>>>>, <<"TildeEqual;", <<8771>>>>,
     <<"TildeFullEqual;", <<8773>>>>, <<"TildeTilde;", <<8776>>>>,
     <<"Topf;", <<120139>>>>, <<"TripleDot;", <<8411>>>>,
     <<"Tscr;", <<119983>>>>, <<"Tstrok;", <<358>>>>, <<"Uacute", <<218>>>>,
     <<"Uacute;", <<218>>>>, <<"Uarr;", <<8607>>>>,
     <<"Uarrocir;", <<10569>>>>, <<"Ubrcy;", <<1038>>>>,
     <<"Ubreve;", <<364>>>>, <<"Ucirc", <<219>>>>, <<"Ucirc;", <<219>>>>,
     <<"Ucy;", <<1059>>>>, <<"Udblac;", <<368>>>>, <<"Ufr;", <<120088>>>>,
     <<"Ugrave", <<217>>>>, <<"Ugrave;", <<217>>>>, <<"Umacr;", <<362>>>>,
     <<"UnderBar;", <<95>>>>, <<"UnderBrace;", <<9183>>>>,
     <<"UnderBracket;", <<9141>>>>, <<"UnderParenthesis;", <<9181>>>>,
     <<"Union;", <<8899>>>>, <<"UnionPlus;", <<8846>>>>,
     <<"Uogon;", <<370>>>>, <<"Uopf;", <<120140>>>>,
     <<"UpArrow;", <<8593>>>>, <<"UpArrowBar;", <<10514>>>>,
     <<"UpArrowDownArrow;", <<8645>>>>, <<"UpDownArrow;", <<8597>>>>,
     <<"UpEquilibrium;", <<10606>>>>, <<"UpTee;", <<8869>>>>,
     <<"UpTeeArrow;", <<8613>>>>, <<"Uparrow;", <<8657>>>>,
     <<"Updownarrow;", <<8661>>>>, <<"UpperLeftArrow;", <<8598>>>>,
     <<"UpperRightArrow;", <<8599>>>>, <<"Upsi;", <<978>>>>,
     <<"Upsilon;", <<933>>>>, <<"Uring;", <<366>>>>,
     <<"Uscr;", <<119984>>>>, <<"Utilde;", <<360>>>>, <<"Uuml", <<220>>>>,
     <<"Uuml;", <<220>>>>, <<"VDash;", <<8875>>>>, <<"Vbar;", <<10987>>>>,
     <<"Vcy;", <<1042>>>>, <<"Vdash;", <<8873>>>>, <<"Vdashl;", <<10982>>>>,
     <<"Vee;", <<8897>>>>, <<"Verbar;", <<8214>>>>, <<"Vert;", <<8214>>>>,
     <<"VerticalBar;", <<8739>>>>, <<"VerticalLine;", <<124>>>>,
     <<"VerticalSeparator;", <<10072>>>>, <<"VerticalTilde;", <<8768>>>>,
     <<"VeryThinSpace;", <<8202>>>>, <<"Vfr;", <<120089>>>>,
     <<"Vopf;", <<120141>>>>, <<"Vscr;", <<119985>>>>,
     <<"Vvdash;", <<8874>>>>, <<"Wcirc;", <<372>>>>, <<"Wedge;", <<8896>>>>,
     <<"Wfr;", <<120090>>>>, <<"Wopf;", <<120142>>>>,
     <<"Wscr;", <<119986>>>>, <<"Xfr;", <<120091>>>>, <<"Xi;", <<926>>>>,
     <<"Xopf;", <<120143>>>>, <<"Xscr;", <<119987>>>>,
     <<"YAcy;", <<1071>>>>, <<"YIcy;", <<1031>>>>, <<"YUcy;", <<1070>>>>,
     <<"Yacute", <<221>>>>, <<"Yacute;", <<221>>>>, <<"Ycirc;", <<374>>>>,
     <<"Ycy;", <<1067>>>>, <<"Yfr;", <<120092>>>>, <<"Yopf;", <<120144>>>>,
     <<"Yscr;", <<119988>>>>, <<"Yuml;", <<376>>>>, <<"ZHcy;", <<1046>>>>,
     <<"Zacute;", <<377>>>>, <<"Zcaron;", <<381>>>>, <<"Zcy;", <<1047>>>>,
     <<"Zdot;", <<379>>>>, <<"ZeroWidthSpace;", <<8203>>>>,
     <<"Zeta;", <<918>>>>, <<"Zfr;", <<8488>>>>, <<"Zopf;", <<8484>>>>,
     <<"Zscr;", <<119989>>>>, <<"aacute", <<225>>>>, <<"aacute;", <<225>>>>,
     <<"abreve;", <<259>>>>, <<"ac;", <<8766>>>>, <<"acE;", <<8766, 819>>>>,
     <<"acd;", <<8767>>>>, <<"acirc", <<226>>>>, <<"acirc;", <<226>>>>,
     <<"acute", <<180>>>>, <<"acute;", <<180>>>>, <<"acy;", <<1072>>>>,
     <<"aelig", <<230>>>>, <<"aelig;", <<230>>>>, <<"af;", <<8289>>>>,
     <<"afr;", <<120094>>>>, <<"agrave", <<224>>>>, <<"agrave;", <<224>>>>,
     <<"alefsym;", <<8501>>>>, <<"aleph;", <<8501>>>>,
     <<"alpha;", <<945>>>>, <<"amacr;", <<257>>>>, <<"amalg;", <<10815>>>>,
     <<"amp", <<38>>>>, <<"amp;", <<38>>>>, <<"and;", <<8743>>>>,
     <<"andand;", <<10837>>>>, <<"andd;", <<10844>>>>,
     <<"andslope;", <<10840>>>>, <<"andv;", <<10842>>>>,
     <<"ang;", <<8736>>>>, <<"ange;", <<10660>>>>, <<"angle;", <<8736>>>>,
     <<"angmsd;", <<8737>>>>, <<"angmsdaa;", <<10664>>>>,
     <<"angmsdab;", <<10665>>>>, <<"angmsdac;", <<10666>>>>,
     <<"angmsdad;", <<10667>>>>, <<"angmsdae;", <<10668>>>>,
     <<"angmsdaf;", <<10669>>>>, <<"angmsdag;", <<10670>>>>,
     <<"angmsdah;", <<10671>>>>, <<"angrt;", <<8735>>>>,
     <<"angrtvb;", <<8894>>>>, <<"angrtvbd;", <<10653>>>>,
     <<"angsph;", <<8738>>>>, <<"angst;", <<197>>>>,
     <<"angzarr;", <<9084>>>>, <<"aogon;", <<261>>>>,
     <<"aopf;", <<120146>>>>, <<"ap;", <<8776>>>>, <<"apE;", <<10864>>>>,
     <<"apacir;", <<10863>>>>, <<"ape;", <<8778>>>>, <<"apid;", <<8779>>>>,
     <<"apos;", <<39>>>>, <<"approx;", <<8776>>>>,
     <<"approxeq;", <<8778>>>>, <<"aring", <<229>>>>, <<"aring;", <<229>>>>,
     <<"ascr;", <<119990>>>>, <<"ast;", <<42>>>>, <<"asymp;", <<8776>>>>,
     <<"asympeq;", <<8781>>>>, <<"atilde", <<227>>>>,
     <<"atilde;", <<227>>>>, <<"auml", <<228>>>>, <<"auml;", <<228>>>>,
     <<"awconint;", <<8755>>>>, <<"awint;", <<10769>>>>,
     <<"bNot;", <<10989>>>>, <<"backcong;", <<8780>>>>,
     <<"backepsilon;", <<1014>>>>, <<"backprime;", <<8245>>>>,
     <<"backsim;", <<8765>>>>, <<"backsimeq;", <<8909>>>>,
     <<"barvee;", <<8893>>>>, <<"barwed;", <<8965>>>>,
     <<"barwedge;", <<8965>>>>, <<"bbrk;", <<9141>>>>,
     <<"bbrktbrk;", <<9142>>>>, <<"bcong;", <<8780>>>>,
     <<"bcy;", <<1073>>>>, <<"bdquo;", <<8222>>>>, <<"becaus;", <<8757>>>>,
     <<"because;", <<8757>>>>, <<"bemptyv;", <<10672>>>>,
     <<"bepsi;", <<1014>>>>, <<"bernou;", <<8492>>>>, <<"beta;", <<946>>>>,
     <<"beth;", <<8502>>>>, <<"between;", <<8812>>>>,
     <<"bfr;", <<120095>>>>, <<"bigcap;", <<8898>>>>,
     <<"bigcirc;", <<9711>>>>, <<"bigcup;", <<8899>>>>,
     <<"bigodot;", <<10752>>>>, <<"bigoplus;", <<10753>>>>,
     <<"bigotimes;", <<10754>>>>, <<"bigsqcup;", <<10758>>>>,
     <<"bigstar;", <<9733>>>>, <<"bigtriangledown;", <<9661>>>>,
     <<"bigtriangleup;", <<9651>>>>, <<"biguplus;", <<10756>>>>,
     <<"bigvee;", <<8897>>>>, <<"bigwedge;", <<8896>>>>,
     <<"bkarow;", <<10509>>>>, <<"blacklozenge;", <<10731>>>>,
     <<"blacksquare;", <<9642>>>>, <<"blacktriangle;", <<9652>>>>,
     <<"blacktriangledown;", <<9662>>>>, <<"blacktriangleleft;", <<9666>>>>,
     <<"blacktriangleright;", <<9656>>>>, <<"blank;", <<9251>>>>,
     <<"blk12;", <<9618>>>>, <<"blk14;", <<9617>>>>, <<"blk34;", <<9619>>>>,
     <<"block;", <<9608>>>>, <<"bne;", <<61, 8421>>>>,
     <<"bnequiv;", <<8801, 8421>>>>, <<"bnot;", <<8976>>>>,
     <<"bopf;", <<120147>>>>, <<"bot;", <<8869>>>>, <<"bottom;", <<8869>>>>,
     <<"bowtie;", <<8904>>>>, <<"boxDL;", <<9559>>>>,
     <<"boxDR;", <<9556>>>>, <<"boxDl;", <<9558>>>>, <<"boxDr;", <<9555>>>>,
     <<"boxH;", <<9552>>>>, <<"boxHD;", <<9574>>>>, <<"boxHU;", <<9577>>>>,
     <<"boxHd;", <<9572>>>>, <<"boxHu;", <<9575>>>>, <<"boxUL;", <<9565>>>>,
     <<"boxUR;", <<9562>>>>, <<"boxUl;", <<9564>>>>, <<"boxUr;", <<9561>>>>,
     <<"boxV;", <<9553>>>>, <<"boxVH;", <<9580>>>>, <<"boxVL;", <<9571>>>>,
     <<"boxVR;", <<9568>>>>, <<"boxVh;", <<9579>>>>, <<"boxVl;", <<9570>>>>,
     <<"boxVr;", <<9567>>>>, <<"boxbox;", <<10697>>>>,
     <<"boxdL;", <<9557>>>>, <<"boxdR;", <<9554>>>>, <<"boxdl;", <<9488>>>>,
     <<"boxdr;", <<9484>>>>, <<"boxh;", <<9472>>>>, <<"boxhD;", <<9573>>>>,
     <<"boxhU;", <<9576>>>>, <<"boxhd;", <<9516>>>>, <<"boxhu;", <<9524>>>>,
     <<"boxminus;", <<8863>>>>, <<"boxplus;", <<8862>>>>,
     <<"boxtimes;", <<8864>>>>, <<"boxuL;", <<9563>>>>,
     <<"boxuR;", <<9560>>>>, <<"boxul;", <<9496>>>>, <<"boxur;", <<9492>>>>,
     <<"boxv;", <<9474>>>>, <<"boxvH;", <<9578>>>>, <<"boxvL;", <<9569>>>>,
     <<"boxvR;", <<9566>>>>, <<"boxvh;", <<9532>>>>, <<"boxvl;", <<9508>>>>,
     <<"boxvr;", <<9500>>>>, <<"bprime;", <<8245>>>>, <<"breve;", <<728>>>>,
     <<"brvbar", <<166>>>>, <<"brvbar;", <<166>>>>, <<"bscr;", <<119991>>>>,
     <<"bsemi;", <<8271>>>>, <<"bsim;", <<8765>>>>, <<"bsime;", <<8909>>>>,
     <<"bsol;", <<92>>>>, <<"bsolb;", <<10693>>>>,
     <<"bsolhsub;", <<10184>>>>, <<"bull;", <<8226>>>>,
     <<"bullet;", <<8226>>>>, <<"bump;", <<8782>>>>,
     <<"bumpE;", <<10926>>>>, <<"bumpe;", <<8783>>>>,
     <<"bumpeq;", <<8783>>>>, <<"cacute;", <<263>>>>, <<"cap;", <<8745>>>>,
     <<"capand;", <<10820>>>>, <<"capbrcup;", <<10825>>>>,
     <<"capcap;", <<10827>>>>, <<"capcup;", <<10823>>>>,
     <<"capdot;", <<10816>>>>, <<"caps;", <<8745, 65024>>>>,
     <<"caret;", <<8257>>>>, <<"caron;", <<711>>>>, <<"ccaps;", <<10829>>>>,
     <<"ccaron;", <<269>>>>, <<"ccedil", <<231>>>>, <<"ccedil;", <<231>>>>,
     <<"ccirc;", <<265>>>>, <<"ccups;", <<10828>>>>,
     <<"ccupssm;", <<10832>>>>, <<"cdot;", <<267>>>>, <<"cedil", <<184>>>>,
     <<"cedil;", <<184>>>>, <<"cemptyv;", <<10674>>>>, <<"cent", <<162>>>>,
     <<"cent;", <<162>>>>, <<"centerdot;", <<183>>>>,
     <<"cfr;", <<120096>>>>, <<"chcy;", <<1095>>>>, <<"check;", <<10003>>>>,
     <<"checkmark;", <<10003>>>>, <<"chi;", <<967>>>>, <<"cir;", <<9675>>>>,
     <<"cirE;", <<10691>>>>, <<"circ;", <<710>>>>, <<"circeq;", <<8791>>>>,
     <<"circlearrowleft;", <<8634>>>>, <<"circlearrowright;", <<8635>>>>,
     <<"circledR;", <<174>>>>, <<"circledS;", <<9416>>>>,
     <<"circledast;", <<8859>>>>, <<"circledcirc;", <<8858>>>>,
     <<"circleddash;", <<8861>>>>, <<"cire;", <<8791>>>>,
     <<"cirfnint;", <<10768>>>>, <<"cirmid;", <<10991>>>>,
     <<"cirscir;", <<10690>>>>, <<"clubs;", <<9827>>>>,
     <<"clubsuit;", <<9827>>>>, <<"colon;", <<58>>>>,
     <<"colone;", <<8788>>>>, <<"coloneq;", <<8788>>>>,
     <<"comma;", <<44>>>>, <<"commat;", <<64>>>>, <<"comp;", <<8705>>>>,
     <<"compfn;", <<8728>>>>, <<"complement;", <<8705>>>>,
     <<"complexes;", <<8450>>>>, <<"cong;", <<8773>>>>,
     <<"congdot;", <<10861>>>>, <<"conint;", <<8750>>>>,
     <<"copf;", <<120148>>>>, <<"coprod;", <<8720>>>>, <<"copy", <<169>>>>,
     <<"copy;", <<169>>>>, <<"copysr;", <<8471>>>>, <<"crarr;", <<8629>>>>,
     <<"cross;", <<10007>>>>, <<"cscr;", <<119992>>>>,
     <<"csub;", <<10959>>>>, <<"csube;", <<10961>>>>,
     <<"csup;", <<10960>>>>, <<"csupe;", <<10962>>>>,
     <<"ctdot;", <<8943>>>>, <<"cudarrl;", <<10552>>>>,
     <<"cudarrr;", <<10549>>>>, <<"cuepr;", <<8926>>>>,
     <<"cuesc;", <<8927>>>>, <<"cularr;", <<8630>>>>,
     <<"cularrp;", <<10557>>>>, <<"cup;", <<8746>>>>,
     <<"cupbrcap;", <<10824>>>>, <<"cupcap;", <<10822>>>>,
     <<"cupcup;", <<10826>>>>, <<"cupdot;", <<8845>>>>,
     <<"cupor;", <<10821>>>>, <<"cups;", <<8746, 65024>>>>,
     <<"curarr;", <<8631>>>>, <<"curarrm;", <<10556>>>>,
     <<"curlyeqprec;", <<8926>>>>, <<"curlyeqsucc;", <<8927>>>>,
     <<"curlyvee;", <<8910>>>>, <<"curlywedge;", <<8911>>>>,
     <<"curren", <<164>>>>, <<"curren;", <<164>>>>,
     <<"curvearrowleft;", <<8630>>>>, <<"curvearrowright;", <<8631>>>>,
     <<"cuvee;", <<8910>>>>, <<"cuwed;", <<8911>>>>,
     <<"cwconint;", <<8754>>>>, <<"cwint;", <<8753>>>>,
     <<"cylcty;", <<9005>>>>, <<"dArr;", <<8659>>>>, <<"dHar;", <<10597>>>>,
     <<"dagger;", <<8224>>>>, <<"daleth;", <<8504>>>>,
     <<"darr;", <<8595>>>>, <<"dash;", <<8208>>>>, <<"dashv;", <<8867>>>>,
     <<"dbkarow;", <<10511>>>>, <<"dblac;", <<733>>>>,
     <<"dcaron;", <<271>>>>, <<"dcy;", <<1076>>>>, <<"dd;", <<8518>>>>,
     <<"ddagger;", <<8225>>>>, <<"ddarr;", <<8650>>>>,
     <<"ddotseq;", <<10871>>>>, <<"deg", <<176>>>>, <<"deg;", <<176>>>>,
     <<"delta;", <<948>>>>, <<"demptyv;", <<10673>>>>,
     <<"dfisht;", <<10623>>>>, <<"dfr;", <<120097>>>>,
     <<"dharl;", <<8643>>>>, <<"dharr;", <<8642>>>>, <<"diam;", <<8900>>>>,
     <<"diamond;", <<8900>>>>, <<"diamondsuit;", <<9830>>>>,
     <<"diams;", <<9830>>>>, <<"die;", <<168>>>>, <<"digamma;", <<989>>>>,
     <<"disin;", <<8946>>>>, <<"div;", <<247>>>>, <<"divide", <<247>>>>,
     <<"divide;", <<247>>>>, <<"divideontimes;", <<8903>>>>,
     <<"divonx;", <<8903>>>>, <<"djcy;", <<1106>>>>,
     <<"dlcorn;", <<8990>>>>, <<"dlcrop;", <<8973>>>>,
     <<"dollar;", <<36>>>>, <<"dopf;", <<120149>>>>, <<"dot;", <<729>>>>,
     <<"doteq;", <<8784>>>>, <<"doteqdot;", <<8785>>>>,
     <<"dotminus;", <<8760>>>>, <<"dotplus;", <<8724>>>>,
     <<"dotsquare;", <<8865>>>>, <<"doublebarwedge;", <<8966>>>>,
     <<"downarrow;", <<8595>>>>, <<"downdownarrows;", <<8650>>>>,
     <<"downharpoonleft;", <<8643>>>>, <<"downharpoonright;", <<8642>>>>,
     <<"drbkarow;", <<10512>>>>, <<"drcorn;", <<8991>>>>,
     <<"drcrop;", <<8972>>>>, <<"dscr;", <<119993>>>>,
     <<"dscy;", <<1109>>>>, <<"dsol;", <<10742>>>>, <<"dstrok;", <<273>>>>,
     <<"dtdot;", <<8945>>>>, <<"dtri;", <<9663>>>>, <<"dtrif;", <<9662>>>>,
     <<"duarr;", <<8693>>>>, <<"duhar;", <<10607>>>>,
     <<"dwangle;", <<10662>>>>, <<"dzcy;", <<1119>>>>,
     <<"dzigrarr;", <<10239>>>>, <<"eDDot;", <<10871>>>>,
     <<"eDot;", <<8785>>>>, <<"eacute", <<233>>>>, <<"eacute;", <<233>>>>,
     <<"easter;", <<10862>>>>, <<"ecaron;", <<283>>>>,
     <<"ecir;", <<8790>>>>, <<"ecirc", <<234>>>>, <<"ecirc;", <<234>>>>,
     <<"ecolon;", <<8789>>>>, <<"ecy;", <<1101>>>>, <<"edot;", <<279>>>>,
     <<"ee;", <<8519>>>>, <<"efDot;", <<8786>>>>, <<"efr;", <<120098>>>>,
     <<"eg;", <<10906>>>>, <<"egrave", <<232>>>>, <<"egrave;", <<232>>>>,
     <<"egs;", <<10902>>>>, <<"egsdot;", <<10904>>>>, <<"el;", <<10905>>>>,
     <<"elinters;", <<9191>>>>, <<"ell;", <<8467>>>>, <<"els;", <<10901>>>>,
     <<"elsdot;", <<10903>>>>, <<"emacr;", <<275>>>>,
     <<"empty;", <<8709>>>>, <<"emptyset;", <<8709>>>>,
     <<"emptyv;", <<8709>>>>, <<"emsp13;", <<8196>>>>,
     <<"emsp14;", <<8197>>>>, <<"emsp;", <<8195>>>>, <<"eng;", <<331>>>>,
     <<"ensp;", <<8194>>>>, <<"eogon;", <<281>>>>, <<"eopf;", <<120150>>>>,
     <<"epar;", <<8917>>>>, <<"eparsl;", <<10723>>>>,
     <<"eplus;", <<10865>>>>, <<"epsi;", <<949>>>>, <<"epsilon;", <<949>>>>,
     <<"epsiv;", <<1013>>>>, <<"eqcirc;", <<8790>>>>,
     <<"eqcolon;", <<8789>>>>, <<"eqsim;", <<8770>>>>,
     <<"eqslantgtr;", <<10902>>>>, <<"eqslantless;", <<10901>>>>,
     <<"equals;", <<61>>>>, <<"equest;", <<8799>>>>, <<"equiv;", <<8801>>>>,
     <<"equivDD;", <<10872>>>>, <<"eqvparsl;", <<10725>>>>,
     <<"erDot;", <<8787>>>>, <<"erarr;", <<10609>>>>, <<"escr;", <<8495>>>>,
     <<"esdot;", <<8784>>>>, <<"esim;", <<8770>>>>, <<"eta;", <<951>>>>,
     <<"eth", <<240>>>>, <<"eth;", <<240>>>>, <<"euml", <<235>>>>,
     <<"euml;", <<235>>>>, <<"euro;", <<8364>>>>, <<"excl;", <<33>>>>,
     <<"exist;", <<8707>>>>, <<"expectation;", <<8496>>>>,
     <<"exponentiale;", <<8519>>>>, <<"fallingdotseq;", <<8786>>>>,
     <<"fcy;", <<1092>>>>, <<"female;", <<9792>>>>,
     <<"ffilig;", <<64259>>>>, <<"fflig;", <<64256>>>>,
     <<"ffllig;", <<64260>>>>, <<"ffr;", <<120099>>>>,
     <<"filig;", <<64257>>>>, <<"fjlig;", <<102, 106>>>>,
     <<"flat;", <<9837>>>>, <<"fllig;", <<64258>>>>, <<"fltns;", <<9649>>>>,
     <<"fnof;", <<402>>>>, <<"fopf;", <<120151>>>>, <<"forall;", <<8704>>>>,
     <<"fork;", <<8916>>>>, <<"forkv;", <<10969>>>>,
     <<"fpartint;", <<10765>>>>, <<"frac12", <<189>>>>,
     <<"frac12;", <<189>>>>, <<"frac13;", <<8531>>>>, <<"frac14", <<188>>>>,
     <<"frac14;", <<188>>>>, <<"frac15;", <<8533>>>>,
     <<"frac16;", <<8537>>>>, <<"frac18;", <<8539>>>>,
     <<"frac23;", <<8532>>>>, <<"frac25;", <<8534>>>>,
     <<"frac34", <<190>>>>, <<"frac34;", <<190>>>>, <<"frac35;", <<8535>>>>,
     <<"frac38;", <<8540>>>>, <<"frac45;", <<8536>>>>,
     <<"frac56;", <<8538>>>>, <<"frac58;", <<8541>>>>,
     <<"frac78;", <<8542>>>>, <<"frasl;", <<8260>>>>,
     <<"frown;", <<8994>>>>, <<"fscr;", <<119995>>>>, <<"gE;", <<8807>>>>,
     <<"gEl;", <<10892>>>>, <<"gacute;", <<501>>>>, <<"gamma;", <<947>>>>,
     <<"gammad;", <<989>>>>, <<"gap;", <<10886>>>>, <<"gbreve;", <<287>>>>,
     <<"gcirc;", <<285>>>>, <<"gcy;", <<1075>>>>, <<"gdot;", <<289>>>>,
     <<"ge;", <<8805>>>>, <<"gel;", <<8923>>>>, <<"geq;", <<8805>>>>,
     <<"geqq;", <<8807>>>>, <<"geqslant;", <<10878>>>>,
     <<"ges;", <<10878>>>>, <<"gescc;", <<10921>>>>,
     <<"gesdot;", <<10880>>>>, <<"gesdoto;", <<10882>>>>,
     <<"gesdotol;", <<10884>>>>, <<"gesl;", <<8923, 65024>>>>,
     <<"gesles;", <<10900>>>>, <<"gfr;", <<120100>>>>, <<"gg;", <<8811>>>>,
     <<"ggg;", <<8921>>>>, <<"gimel;", <<8503>>>>, <<"gjcy;", <<1107>>>>,
     <<"gl;", <<8823>>>>, <<"glE;", <<10898>>>>, <<"gla;", <<10917>>>>,
     <<"glj;", <<10916>>>>, <<"gnE;", <<8809>>>>, <<"gnap;", <<10890>>>>,
     <<"gnapprox;", <<10890>>>>, <<"gne;", <<10888>>>>,
     <<"gneq;", <<10888>>>>, <<"gneqq;", <<8809>>>>, <<"gnsim;", <<8935>>>>,
     <<"gopf;", <<120152>>>>, <<"grave;", <<96>>>>, <<"gscr;", <<8458>>>>,
     <<"gsim;", <<8819>>>>, <<"gsime;", <<10894>>>>,
     <<"gsiml;", <<10896>>>>, <<"gt", <<62>>>>, <<"gt;", <<62>>>>,
     <<"gtcc;", <<10919>>>>, <<"gtcir;", <<10874>>>>,
     <<"gtdot;", <<8919>>>>, <<"gtlPar;", <<10645>>>>,
     <<"gtquest;", <<10876>>>>, <<"gtrapprox;", <<10886>>>>,
     <<"gtrarr;", <<10616>>>>, <<"gtrdot;", <<8919>>>>,
     <<"gtreqless;", <<8923>>>>, <<"gtreqqless;", <<10892>>>>,
     <<"gtrless;", <<8823>>>>, <<"gtrsim;", <<8819>>>>,
     <<"gvertneqq;", <<8809, 65024>>>>, <<"gvnE;", <<8809, 65024>>>>,
     <<"hArr;", <<8660>>>>, <<"hairsp;", <<8202>>>>, <<"half;", <<189>>>>,
     <<"hamilt;", <<8459>>>>, <<"hardcy;", <<1098>>>>,
     <<"harr;", <<8596>>>>, <<"harrcir;", <<10568>>>>,
     <<"harrw;", <<8621>>>>, <<"hbar;", <<8463>>>>, <<"hcirc;", <<293>>>>,
     <<"hearts;", <<9829>>>>, <<"heartsuit;", <<9829>>>>,
     <<"hellip;", <<8230>>>>, <<"hercon;", <<8889>>>>,
     <<"hfr;", <<120101>>>>, <<"hksearow;", <<10533>>>>,
     <<"hkswarow;", <<10534>>>>, <<"hoarr;", <<8703>>>>,
     <<"homtht;", <<8763>>>>, <<"hookleftarrow;", <<8617>>>>,
     <<"hookrightarrow;", <<8618>>>>, <<"hopf;", <<120153>>>>,
     <<"horbar;", <<8213>>>>, <<"hscr;", <<119997>>>>,
     <<"hslash;", <<8463>>>>, <<"hstrok;", <<295>>>>,
     <<"hybull;", <<8259>>>>, <<"hyphen;", <<8208>>>>,
     <<"iacute", <<237>>>>, <<"iacute;", <<237>>>>, <<"ic;", <<8291>>>>,
     <<"icirc", <<238>>>>, <<"icirc;", <<238>>>>, <<"icy;", <<1080>>>>,
     <<"iecy;", <<1077>>>>, <<"iexcl", <<161>>>>, <<"iexcl;", <<161>>>>,
     <<"iff;", <<8660>>>>, <<"ifr;", <<120102>>>>, <<"igrave", <<236>>>>,
     <<"igrave;", <<236>>>>, <<"ii;", <<8520>>>>, <<"iiiint;", <<10764>>>>,
     <<"iiint;", <<8749>>>>, <<"iinfin;", <<10716>>>>,
     <<"iiota;", <<8489>>>>, <<"ijlig;", <<307>>>>, <<"imacr;", <<299>>>>,
     <<"image;", <<8465>>>>, <<"imagline;", <<8464>>>>,
     <<"imagpart;", <<8465>>>>, <<"imath;", <<305>>>>,
     <<"imof;", <<8887>>>>, <<"imped;", <<437>>>>, <<"in;", <<8712>>>>,
     <<"incare;", <<8453>>>>, <<"infin;", <<8734>>>>,
     <<"infintie;", <<10717>>>>, <<"inodot;", <<305>>>>,
     <<"int;", <<8747>>>>, <<"intcal;", <<8890>>>>,
     <<"integers;", <<8484>>>>, <<"intercal;", <<8890>>>>,
     <<"intlarhk;", <<10775>>>>, <<"intprod;", <<10812>>>>,
     <<"iocy;", <<1105>>>>, <<"iogon;", <<303>>>>, <<"iopf;", <<120154>>>>,
     <<"iota;", <<953>>>>, <<"iprod;", <<10812>>>>, <<"iquest", <<191>>>>,
     <<"iquest;", <<191>>>>, <<"iscr;", <<119998>>>>, <<"isin;", <<8712>>>>,
     <<"isinE;", <<8953>>>>, <<"isindot;", <<8949>>>>,
     <<"isins;", <<8948>>>>, <<"isinsv;", <<8947>>>>,
     <<"isinv;", <<8712>>>>, <<"it;", <<8290>>>>, <<"itilde;", <<297>>>>,
     <<"iukcy;", <<1110>>>>, <<"iuml", <<239>>>>, <<"iuml;", <<239>>>>,
     <<"jcirc;", <<309>>>>, <<"jcy;", <<1081>>>>, <<"jfr;", <<120103>>>>,
     <<"jmath;", <<567>>>>, <<"jopf;", <<120155>>>>,
     <<"jscr;", <<119999>>>>, <<"jsercy;", <<1112>>>>,
     <<"jukcy;", <<1108>>>>, <<"kappa;", <<954>>>>, <<"kappav;", <<1008>>>>,
     <<"kcedil;", <<311>>>>, <<"kcy;", <<1082>>>>, <<"kfr;", <<120104>>>>,
     <<"kgreen;", <<312>>>>, <<"khcy;", <<1093>>>>, <<"kjcy;", <<1116>>>>,
     <<"kopf;", <<120156>>>>, <<"kscr;", <<120000>>>>,
     <<"lAarr;", <<8666>>>>, <<"lArr;", <<8656>>>>,
     <<"lAtail;", <<10523>>>>, <<"lBarr;", <<10510>>>>, <<"lE;", <<8806>>>>,
     <<"lEg;", <<10891>>>>, <<"lHar;", <<10594>>>>, <<"lacute;", <<314>>>>,
     <<"laemptyv;", <<10676>>>>, <<"lagran;", <<8466>>>>,
     <<"lambda;", <<955>>>>, <<"lang;", <<10216>>>>,
     <<"langd;", <<10641>>>>, <<"langle;", <<10216>>>>,
     <<"lap;", <<10885>>>>, <<"laquo", <<171>>>>, <<"laquo;", <<171>>>>,
     <<"larr;", <<8592>>>>, <<"larrb;", <<8676>>>>,
     <<"larrbfs;", <<10527>>>>, <<"larrfs;", <<10525>>>>,
     <<"larrhk;", <<8617>>>>, <<"larrlp;", <<8619>>>>,
     <<"larrpl;", <<10553>>>>, <<"larrsim;", <<10611>>>>,
     <<"larrtl;", <<8610>>>>, <<"lat;", <<10923>>>>,
     <<"latail;", <<10521>>>>, <<"late;", <<10925>>>>,
     <<"lates;", <<10925, 65024>>>>, <<"lbarr;", <<10508>>>>,
     <<"lbbrk;", <<10098>>>>, <<"lbrace;", <<123>>>>, <<"lbrack;", <<91>>>>,
     <<"lbrke;", <<10635>>>>, <<"lbrksld;", <<10639>>>>,
     <<"lbrkslu;", <<10637>>>>, <<"lcaron;", <<318>>>>,
     <<"lcedil;", <<316>>>>, <<"lceil;", <<8968>>>>, <<"lcub;", <<123>>>>,
     <<"lcy;", <<1083>>>>, <<"ldca;", <<10550>>>>, <<"ldquo;", <<8220>>>>,
     <<"ldquor;", <<8222>>>>, <<"ldrdhar;", <<10599>>>>,
     <<"ldrushar;", <<10571>>>>, <<"ldsh;", <<8626>>>>, <<"le;", <<8804>>>>,
     <<"leftarrow;", <<8592>>>>, <<"leftarrowtail;", <<8610>>>>,
     <<"leftharpoondown;", <<8637>>>>, <<"leftharpoonup;", <<8636>>>>,
     <<"leftleftarrows;", <<8647>>>>, <<"leftrightarrow;", <<8596>>>>,
     <<"leftrightarrows;", <<8646>>>>, <<"leftrightharpoons;", <<8651>>>>,
     <<"leftrightsquigarrow;", <<8621>>>>, <<"leftthreetimes;", <<8907>>>>,
     <<"leg;", <<8922>>>>, <<"leq;", <<8804>>>>, <<"leqq;", <<8806>>>>,
     <<"leqslant;", <<10877>>>>, <<"les;", <<10877>>>>,
     <<"lescc;", <<10920>>>>, <<"lesdot;", <<10879>>>>,
     <<"lesdoto;", <<10881>>>>, <<"lesdotor;", <<10883>>>>,
     <<"lesg;", <<8922, 65024>>>>, <<"lesges;", <<10899>>>>,
     <<"lessapprox;", <<10885>>>>, <<"lessdot;", <<8918>>>>,
     <<"lesseqgtr;", <<8922>>>>, <<"lesseqqgtr;", <<10891>>>>,
     <<"lessgtr;", <<8822>>>>, <<"lesssim;", <<8818>>>>,
     <<"lfisht;", <<10620>>>>, <<"lfloor;", <<8970>>>>,
     <<"lfr;", <<120105>>>>, <<"lg;", <<8822>>>>, <<"lgE;", <<10897>>>>,
     <<"lhard;", <<8637>>>>, <<"lharu;", <<8636>>>>,
     <<"lharul;", <<10602>>>>, <<"lhblk;", <<9604>>>>,
     <<"ljcy;", <<1113>>>>, <<"ll;", <<8810>>>>, <<"llarr;", <<8647>>>>,
     <<"llcorner;", <<8990>>>>, <<"llhard;", <<10603>>>>,
     <<"lltri;", <<9722>>>>, <<"lmidot;", <<320>>>>,
     <<"lmoust;", <<9136>>>>, <<"lmoustache;", <<9136>>>>,
     <<"lnE;", <<8808>>>>, <<"lnap;", <<10889>>>>,
     <<"lnapprox;", <<10889>>>>, <<"lne;", <<10887>>>>,
     <<"lneq;", <<10887>>>>, <<"lneqq;", <<8808>>>>, <<"lnsim;", <<8934>>>>,
     <<"loang;", <<10220>>>>, <<"loarr;", <<8701>>>>,
     <<"lobrk;", <<10214>>>>, <<"longleftarrow;", <<10229>>>>,
     <<"longleftrightarrow;", <<10231>>>>, <<"longmapsto;", <<10236>>>>,
     <<"longrightarrow;", <<10230>>>>, <<"looparrowleft;", <<8619>>>>,
     <<"looparrowright;", <<8620>>>>, <<"lopar;", <<10629>>>>,
     <<"lopf;", <<120157>>>>, <<"loplus;", <<10797>>>>,
     <<"lotimes;", <<10804>>>>, <<"lowast;", <<8727>>>>,
     <<"lowbar;", <<95>>>>, <<"loz;", <<9674>>>>, <<"lozenge;", <<9674>>>>,
     <<"lozf;", <<10731>>>>, <<"lpar;", <<40>>>>, <<"lparlt;", <<10643>>>>,
     <<"lrarr;", <<8646>>>>, <<"lrcorner;", <<8991>>>>,
     <<"lrhar;", <<8651>>>>, <<"lrhard;", <<10605>>>>, <<"lrm;", <<8206>>>>,
     <<"lrtri;", <<8895>>>>, <<"lsaquo;", <<8249>>>>,
     <<"lscr;", <<120001>>>>, <<"lsh;", <<8624>>>>, <<"lsim;", <<8818>>>>,
     <<"lsime;", <<10893>>>>, <<"lsimg;", <<10895>>>>, <<"lsqb;", <<91>>>>,
     <<"lsquo;", <<8216>>>>, <<"lsquor;", <<8218>>>>,
     <<"lstrok;", <<322>>>>, <<"lt", <<60>>>>, <<"lt;", <<60>>>>,
     <<"ltcc;", <<10918>>>>, <<"ltcir;", <<10873>>>>,
     <<"ltdot;", <<8918>>>>, <<"lthree;", <<8907>>>>,
     <<"ltimes;", <<8905>>>>, <<"ltlarr;", <<10614>>>>,
     <<"ltquest;", <<10875>>>>, <<"ltrPar;", <<10646>>>>,
     <<"ltri;", <<9667>>>>, <<"ltrie;", <<8884>>>>, <<"ltrif;", <<9666>>>>,
     <<"lurdshar;", <<10570>>>>, <<"luruhar;", <<10598>>>>,
     <<"lvertneqq;", <<8808, 65024>>>>, <<"lvnE;", <<8808, 65024>>>>,
     <<"mDDot;", <<8762>>>>, <<"macr", <<175>>>>, <<"macr;", <<175>>>>,
     <<"male;", <<9794>>>>, <<"malt;", <<10016>>>>,
     <<"maltese;", <<10016>>>>, <<"map;", <<8614>>>>,
     <<"mapsto;", <<8614>>>>, <<"mapstodown;", <<8615>>>>,
     <<"mapstoleft;", <<8612>>>>, <<"mapstoup;", <<8613>>>>,
     <<"marker;", <<9646>>>>, <<"mcomma;", <<10793>>>>,
     <<"mcy;", <<1084>>>>, <<"mdash;", <<8212>>>>,
     <<"measuredangle;", <<8737>>>>, <<"mfr;", <<120106>>>>,
     <<"mho;", <<8487>>>>, <<"micro", <<181>>>>, <<"micro;", <<181>>>>,
     <<"mid;", <<8739>>>>, <<"midast;", <<42>>>>, <<"midcir;", <<10992>>>>,
     <<"middot", <<183>>>>, <<"middot;", <<183>>>>, <<"minus;", <<8722>>>>,
     <<"minusb;", <<8863>>>>, <<"minusd;", <<8760>>>>,
     <<"minusdu;", <<10794>>>>, <<"mlcp;", <<10971>>>>,
     <<"mldr;", <<8230>>>>, <<"mnplus;", <<8723>>>>,
     <<"models;", <<8871>>>>, <<"mopf;", <<120158>>>>, <<"mp;", <<8723>>>>,
     <<"mscr;", <<120002>>>>, <<"mstpos;", <<8766>>>>, <<"mu;", <<956>>>>,
     <<"multimap;", <<8888>>>>, <<"mumap;", <<8888>>>>,
     <<"nGg;", <<8921, 824>>>>, <<"nGt;", <<8811, 8402>>>>,
     <<"nGtv;", <<8811, 824>>>>, <<"nLeftarrow;", <<8653>>>>,
     <<"nLeftrightarrow;", <<8654>>>>, <<"nLl;", <<8920, 824>>>>,
     <<"nLt;", <<8810, 8402>>>>, <<"nLtv;", <<8810, 824>>>>,
     <<"nRightarrow;", <<8655>>>>, <<"nVDash;", <<8879>>>>,
     <<"nVdash;", <<8878>>>>, <<"nabla;", <<8711>>>>,
     <<"nacute;", <<324>>>>, <<"nang;", <<8736, 8402>>>>,
     <<"nap;", <<8777>>>>, <<"napE;", <<10864, 824>>>>,
     <<"napid;", <<8779, 824>>>>, <<"napos;", <<329>>>>,
     <<"napprox;", <<8777>>>>, <<"natur;", <<9838>>>>,
     <<"natural;", <<9838>>>>, <<"naturals;", <<8469>>>>,
     <<"nbsp", <<160>>>>, <<"nbsp;", <<160>>>>, <<"nbump;", <<8782, 824>>>>,
     <<"nbumpe;", <<8783, 824>>>>, <<"ncap;", <<10819>>>>,
     <<"ncaron;", <<328>>>>, <<"ncedil;", <<326>>>>, <<"ncong;", <<8775>>>>,
     <<"ncongdot;", <<10861, 824>>>>, <<"ncup;", <<10818>>>>,
     <<"ncy;", <<1085>>>>, <<"ndash;", <<8211>>>>, <<"ne;", <<8800>>>>,
     <<"neArr;", <<8663>>>>, <<"nearhk;", <<10532>>>>,
     <<"nearr;", <<8599>>>>, <<"nearrow;", <<8599>>>>,
     <<"nedot;", <<8784, 824>>>>, <<"nequiv;", <<8802>>>>,
     <<"nesear;", <<10536>>>>, <<"nesim;", <<8770, 824>>>>,
     <<"nexist;", <<8708>>>>, <<"nexists;", <<8708>>>>,
     <<"nfr;", <<120107>>>>, <<"ngE;", <<8807, 824>>>>,
     <<"nge;", <<8817>>>>, <<"ngeq;", <<8817>>>>,
     <<"ngeqq;", <<8807, 824>>>>, <<"ngeqslant;", <<10878, 824>>>>,
     <<"nges;", <<10878, 824>>>>, <<"ngsim;", <<8821>>>>,
     <<"ngt;", <<8815>>>>, <<"ngtr;", <<8815>>>>, <<"nhArr;", <<8654>>>>,
     <<"nharr;", <<8622>>>>, <<"nhpar;", <<10994>>>>, <<"ni;", <<8715>>>>,
     <<"nis;", <<8956>>>>, <<"nisd;", <<8954>>>>, <<"niv;", <<8715>>>>,
     <<"njcy;", <<1114>>>>, <<"nlArr;", <<8653>>>>,
     <<"nlE;", <<8806, 824>>>>, <<"nlarr;", <<8602>>>>,
     <<"nldr;", <<8229>>>>, <<"nle;", <<8816>>>>,
     <<"nleftarrow;", <<8602>>>>, <<"nleftrightarrow;", <<8622>>>>,
     <<"nleq;", <<8816>>>>, <<"nleqq;", <<8806, 824>>>>,
     <<"nleqslant;", <<10877, 824>>>>, <<"nles;", <<10877, 824>>>>,
     <<"nless;", <<8814>>>>, <<"nlsim;", <<8820>>>>, <<"nlt;", <<8814>>>>,
     <<"nltri;", <<8938>>>>, <<"nltrie;", <<8940>>>>, <<"nmid;", <<8740>>>>,
     <<"nopf;", <<120159>>>>, <<"not", <<172>>>>, <<"not;", <<172>>>>,
     <<"notin;", <<8713>>>>, <<"notinE;", <<8953, 824>>>>,
     <<"notindot;", <<8949, 824>>>>, <<"notinva;", <<8713>>>>,
     <<"notinvb;", <<8951>>>>, <<"notinvc;", <<8950>>>>,
     <<"notni;", <<8716>>>>, <<"notniva;", <<8716>>>>,
     <<"notnivb;", <<8958>>>>, <<"notnivc;", <<8957>>>>,
     <<"npar;", <<8742>>>>, <<"nparallel;", <<8742>>>>,
     <<"nparsl;", <<11005, 8421>>>>, <<"npart;", <<8706, 824>>>>,
     <<"npolint;", <<10772>>>>, <<"npr;", <<8832>>>>,
     <<"nprcue;", <<8928>>>>, <<"npre;", <<10927, 824>>>>,
     <<"nprec;", <<8832>>>>, <<"npreceq;", <<10927, 824>>>>,
     <<"nrArr;", <<8655>>>>, <<"nrarr;", <<8603>>>>,
     <<"nrarrc;", <<10547, 824>>>>, <<"nrarrw;", <<8605, 824>>>>,
     <<"nrightarrow;", <<8603>>>>, <<"nrtri;", <<8939>>>>,
     <<"nrtrie;", <<8941>>>>, <<"nsc;", <<8833>>>>, <<"nsccue;", <<8929>>>>,
     <<"nsce;", <<10928, 824>>>>, <<"nscr;", <<120003>>>>,
     <<"nshortmid;", <<8740>>>>, <<"nshortparallel;", <<8742>>>>,
     <<"nsim;", <<8769>>>>, <<"nsime;", <<8772>>>>, <<"nsimeq;", <<8772>>>>,
     <<"nsmid;", <<8740>>>>, <<"nspar;", <<8742>>>>,
     <<"nsqsube;", <<8930>>>>, <<"nsqsupe;", <<8931>>>>,
     <<"nsub;", <<8836>>>>, <<"nsubE;", <<10949, 824>>>>,
     <<"nsube;", <<8840>>>>, <<"nsubset;", <<8834, 8402>>>>,
     <<"nsubseteq;", <<8840>>>>, <<"nsubseteqq;", <<10949, 824>>>>,
     <<"nsucc;", <<8833>>>>, <<"nsucceq;", <<10928, 824>>>>,
     <<"nsup;", <<8837>>>>, <<"nsupE;", <<10950, 824>>>>,
     <<"nsupe;", <<8841>>>>, <<"nsupset;", <<8835, 8402>>>>,
     <<"nsupseteq;", <<8841>>>>, <<"nsupseteqq;", <<10950, 824>>>>,
     <<"ntgl;", <<8825>>>>, <<"ntilde", <<241>>>>, <<"ntilde;", <<241>>>>,
     <<"ntlg;", <<8824>>>>, <<"ntriangleleft;", <<8938>>>>,
     <<"ntrianglelefteq;", <<8940>>>>, <<"ntriangleright;", <<8939>>>>,
     <<"ntrianglerighteq;", <<8941>>>>, <<"nu;", <<957>>>>,
     <<"num;", <<35>>>>, <<"numero;", <<8470>>>>, <<"numsp;", <<8199>>>>,
     <<"nvDash;", <<8877>>>>, <<"nvHarr;", <<10500>>>>,
     <<"nvap;", <<8781, 8402>>>>, <<"nvdash;", <<8876>>>>,
     <<"nvge;", <<8805, 8402>>>>, <<"nvgt;", <<62, 8402>>>>,
     <<"nvinfin;", <<10718>>>>, <<"nvlArr;", <<10498>>>>,
     <<"nvle;", <<8804, 8402>>>>, <<"nvlt;", <<60, 8402>>>>,
     <<"nvltrie;", <<8884, 8402>>>>, <<"nvrArr;", <<10499>>>>,
     <<"nvrtrie;", <<8885, 8402>>>>, <<"nvsim;", <<8764, 8402>>>>,
     <<"nwArr;", <<8662>>>>, <<"nwarhk;", <<10531>>>>,
     <<"nwarr;", <<8598>>>>, <<"nwarrow;", <<8598>>>>,
     <<"nwnear;", <<10535>>>>, <<"oS;", <<9416>>>>, <<"oacute", <<243>>>>,
     <<"oacute;", <<243>>>>, <<"oast;", <<8859>>>>, <<"ocir;", <<8858>>>>,
     <<"ocirc", <<244>>>>, <<"ocirc;", <<244>>>>, <<"ocy;", <<1086>>>>,
     <<"odash;", <<8861>>>>, <<"odblac;", <<337>>>>, <<"odiv;", <<10808>>>>,
     <<"odot;", <<8857>>>>, <<"odsold;", <<10684>>>>, <<"oelig;", <<339>>>>,
     <<"ofcir;", <<10687>>>>, <<"ofr;", <<120108>>>>, <<"ogon;", <<731>>>>,
     <<"ograve", <<242>>>>, <<"ograve;", <<242>>>>, <<"ogt;", <<10689>>>>,
     <<"ohbar;", <<10677>>>>, <<"ohm;", <<937>>>>, <<"oint;", <<8750>>>>,
     <<"olarr;", <<8634>>>>, <<"olcir;", <<10686>>>>,
     <<"olcross;", <<10683>>>>, <<"oline;", <<8254>>>>,
     <<"olt;", <<10688>>>>, <<"omacr;", <<333>>>>, <<"omega;", <<969>>>>,
     <<"omicron;", <<959>>>>, <<"omid;", <<10678>>>>,
     <<"ominus;", <<8854>>>>, <<"oopf;", <<120160>>>>,
     <<"opar;", <<10679>>>>, <<"operp;", <<10681>>>>,
     <<"oplus;", <<8853>>>>, <<"or;", <<8744>>>>, <<"orarr;", <<8635>>>>,
     <<"ord;", <<10845>>>>, <<"order;", <<8500>>>>,
     <<"orderof;", <<8500>>>>, <<"ordf", <<170>>>>, <<"ordf;", <<170>>>>,
     <<"ordm", <<186>>>>, <<"ordm;", <<186>>>>, <<"origof;", <<8886>>>>,
     <<"oror;", <<10838>>>>, <<"orslope;", <<10839>>>>,
     <<"orv;", <<10843>>>>, <<"oscr;", <<8500>>>>, <<"oslash", <<248>>>>,
     <<"oslash;", <<248>>>>, <<"osol;", <<8856>>>>, <<"otilde", <<245>>>>,
     <<"otilde;", <<245>>>>, <<"otimes;", <<8855>>>>,
     <<"otimesas;", <<10806>>>>, <<"ouml", <<246>>>>, <<"ouml;", <<246>>>>,
     <<"ovbar;", <<9021>>>>, <<"par;", <<8741>>>>, <<"para", <<182>>>>,
     <<"para;", <<182>>>>, <<"parallel;", <<8741>>>>,
     <<"parsim;", <<10995>>>>, <<"parsl;", <<11005>>>>,
     <<"part;", <<8706>>>>, <<"pcy;", <<1087>>>>, <<"percnt;", <<37>>>>,
     <<"period;", <<46>>>>, <<"permil;", <<8240>>>>, <<"perp;", <<8869>>>>,
     <<"pertenk;", <<8241>>>>, <<"pfr;", <<120109>>>>, <<"phi;", <<966>>>>,
     <<"phiv;", <<981>>>>, <<"phmmat;", <<8499>>>>, <<"phone;", <<9742>>>>,
     <<"pi;", <<960>>>>, <<"pitchfork;", <<8916>>>>, <<"piv;", <<982>>>>,
     <<"planck;", <<8463>>>>, <<"planckh;", <<8462>>>>,
     <<"plankv;", <<8463>>>>, <<"plus;", <<43>>>>,
     <<"plusacir;", <<10787>>>>, <<"plusb;", <<8862>>>>,
     <<"pluscir;", <<10786>>>>, <<"plusdo;", <<8724>>>>,
     <<"plusdu;", <<10789>>>>, <<"pluse;", <<10866>>>>,
     <<"plusmn", <<177>>>>, <<"plusmn;", <<177>>>>,
     <<"plussim;", <<10790>>>>, <<"plustwo;", <<10791>>>>,
     <<"pm;", <<177>>>>, <<"pointint;", <<10773>>>>,
     <<"popf;", <<120161>>>>, <<"pound", <<163>>>>, <<"pound;", <<163>>>>,
     <<"pr;", <<8826>>>>, <<"prE;", <<10931>>>>, <<"prap;", <<10935>>>>,
     <<"prcue;", <<8828>>>>, <<"pre;", <<10927>>>>, <<"prec;", <<8826>>>>,
     <<"precapprox;", <<10935>>>>, <<"preccurlyeq;", <<8828>>>>,
     <<"preceq;", <<10927>>>>, <<"precnapprox;", <<10937>>>>,
     <<"precneqq;", <<10933>>>>, <<"precnsim;", <<8936>>>>,
     <<"precsim;", <<8830>>>>, <<"prime;", <<8242>>>>,
     <<"primes;", <<8473>>>>, <<"prnE;", <<10933>>>>,
     <<"prnap;", <<10937>>>>, <<"prnsim;", <<8936>>>>,
     <<"prod;", <<8719>>>>, <<"profalar;", <<9006>>>>,
     <<"profline;", <<8978>>>>, <<"profsurf;", <<8979>>>>,
     <<"prop;", <<8733>>>>, <<"propto;", <<8733>>>>, <<"prsim;", <<8830>>>>,
     <<"prurel;", <<8880>>>>, <<"pscr;", <<120005>>>>, <<"psi;", <<968>>>>,
     <<"puncsp;", <<8200>>>>, <<"qfr;", <<120110>>>>,
     <<"qint;", <<10764>>>>, <<"qopf;", <<120162>>>>,
     <<"qprime;", <<8279>>>>, <<"qscr;", <<120006>>>>,
     <<"quaternions;", <<8461>>>>, <<"quatint;", <<10774>>>>,
     <<"quest;", <<63>>>>, <<"questeq;", <<8799>>>>, <<"quot", <<34>>>>,
     <<"quot;", <<34>>>>, <<"rAarr;", <<8667>>>>, <<"rArr;", <<8658>>>>,
     <<"rAtail;", <<10524>>>>, <<"rBarr;", <<10511>>>>,
     <<"rHar;", <<10596>>>>, <<"race;", <<8765, 817>>>>,
     <<"racute;", <<341>>>>, <<"radic;", <<8730>>>>,
     <<"raemptyv;", <<10675>>>>, <<"rang;", <<10217>>>>,
     <<"rangd;", <<10642>>>>, <<"range;", <<10661>>>>,
     <<"rangle;", <<10217>>>>, <<"raquo", <<187>>>>, <<"raquo;", <<187>>>>,
     <<"rarr;", <<8594>>>>, <<"rarrap;", <<10613>>>>,
     <<"rarrb;", <<8677>>>>, <<"rarrbfs;", <<10528>>>>,
     <<"rarrc;", <<10547>>>>, <<"rarrfs;", <<10526>>>>,
     <<"rarrhk;", <<8618>>>>, <<"rarrlp;", <<8620>>>>,
     <<"rarrpl;", <<10565>>>>, <<"rarrsim;", <<10612>>>>,
     <<"rarrtl;", <<8611>>>>, <<"rarrw;", <<8605>>>>,
     <<"ratail;", <<10522>>>>, <<"ratio;", <<8758>>>>,
     <<"rationals;", <<8474>>>>, <<"rbarr;", <<10509>>>>,
     <<"rbbrk;", <<10099>>>>, <<"rbrace;", <<125>>>>, <<"rbrack;", <<93>>>>,
     <<"rbrke;", <<10636>>>>, <<"rbrksld;", <<10638>>>>,
     <<"rbrkslu;", <<10640>>>>, <<"rcaron;", <<345>>>>,
     <<"rcedil;", <<343>>>>, <<"rceil;", <<8969>>>>, <<"rcub;", <<125>>>>,
     <<"rcy;", <<1088>>>>, <<"rdca;", <<10551>>>>,
     <<"rdldhar;", <<10601>>>>, <<"rdquo;", <<8221>>>>,
     <<"rdquor;", <<8221>>>>, <<"rdsh;", <<8627>>>>, <<"real;", <<8476>>>>,
     <<"realine;", <<8475>>>>, <<"realpart;", <<8476>>>>,
     <<"reals;", <<8477>>>>, <<"rect;", <<9645>>>>, <<"reg", <<174>>>>,
     <<"reg;", <<174>>>>, <<"rfisht;", <<10621>>>>, <<"rfloor;", <<8971>>>>,
     <<"rfr;", <<120111>>>>, <<"rhard;", <<8641>>>>, <<"rharu;", <<8640>>>>,
     <<"rharul;", <<10604>>>>, <<"rho;", <<961>>>>, <<"rhov;", <<1009>>>>,
     <<"rightarrow;", <<8594>>>>, <<"rightarrowtail;", <<8611>>>>,
     <<"rightharpoondown;", <<8641>>>>, <<"rightharpoonup;", <<8640>>>>,
     <<"rightleftarrows;", <<8644>>>>, <<"rightleftharpoons;", <<8652>>>>,
     <<"rightrightarrows;", <<8649>>>>, <<"rightsquigarrow;", <<8605>>>>,
     <<"rightthreetimes;", <<8908>>>>, <<"ring;", <<730>>>>,
     <<"risingdotseq;", <<8787>>>>, <<"rlarr;", <<8644>>>>,
     <<"rlhar;", <<8652>>>>, <<"rlm;", <<8207>>>>, <<"rmoust;", <<9137>>>>,
     <<"rmoustache;", <<9137>>>>, <<"rnmid;", <<10990>>>>,
     <<"roang;", <<10221>>>>, <<"roarr;", <<8702>>>>,
     <<"robrk;", <<10215>>>>, <<"ropar;", <<10630>>>>,
     <<"ropf;", <<120163>>>>, <<"roplus;", <<10798>>>>,
     <<"rotimes;", <<10805>>>>, <<"rpar;", <<41>>>>,
     <<"rpargt;", <<10644>>>>, <<"rppolint;", <<10770>>>>,
     <<"rrarr;", <<8649>>>>, <<"rsaquo;", <<8250>>>>,
     <<"rscr;", <<120007>>>>, <<"rsh;", <<8625>>>>, <<"rsqb;", <<93>>>>,
     <<"rsquo;", <<8217>>>>, <<"rsquor;", <<8217>>>>,
     <<"rthree;", <<8908>>>>, <<"rtimes;", <<8906>>>>,
     <<"rtri;", <<9657>>>>, <<"rtrie;", <<8885>>>>, <<"rtrif;", <<9656>>>>,
     <<"rtriltri;", <<10702>>>>, <<"ruluhar;", <<10600>>>>,
     <<"rx;", <<8478>>>>, <<"sacute;", <<347>>>>, <<"sbquo;", <<8218>>>>,
     <<"sc;", <<8827>>>>, <<"scE;", <<10932>>>>, <<"scap;", <<10936>>>>,
     <<"scaron;", <<353>>>>, <<"sccue;", <<8829>>>>, <<"sce;", <<10928>>>>,
     <<"scedil;", <<351>>>>, <<"scirc;", <<349>>>>, <<"scnE;", <<10934>>>>,
     <<"scnap;", <<10938>>>>, <<"scnsim;", <<8937>>>>,
     <<"scpolint;", <<10771>>>>, <<"scsim;", <<8831>>>>,
     <<"scy;", <<1089>>>>, <<"sdot;", <<8901>>>>, <<"sdotb;", <<8865>>>>,
     <<"sdote;", <<10854>>>>, <<"seArr;", <<8664>>>>,
     <<"searhk;", <<10533>>>>, <<"searr;", <<8600>>>>,
     <<"searrow;", <<8600>>>>, <<"sect", <<167>>>>, <<"sect;", <<167>>>>,
     <<"semi;", <<59>>>>, <<"seswar;", <<10537>>>>,
     <<"setminus;", <<8726>>>>, <<"setmn;", <<8726>>>>,
     <<"sext;", <<10038>>>>, <<"sfr;", <<120112>>>>,
     <<"sfrown;", <<8994>>>>, <<"sharp;", <<9839>>>>,
     <<"shchcy;", <<1097>>>>, <<"shcy;", <<1096>>>>,
     <<"shortmid;", <<8739>>>>, <<"shortparallel;", <<8741>>>>,
     <<"shy", <<173>>>>, <<"shy;", <<173>>>>, <<"sigma;", <<963>>>>,
     <<"sigmaf;", <<962>>>>, <<"sigmav;", <<962>>>>, <<"sim;", <<8764>>>>,
     <<"simdot;", <<10858>>>>, <<"sime;", <<8771>>>>,
     <<"simeq;", <<8771>>>>, <<"simg;", <<10910>>>>,
     <<"simgE;", <<10912>>>>, <<"siml;", <<10909>>>>,
     <<"simlE;", <<10911>>>>, <<"simne;", <<8774>>>>,
     <<"simplus;", <<10788>>>>, <<"simrarr;", <<10610>>>>,
     <<"slarr;", <<8592>>>>, <<"smallsetminus;", <<8726>>>>,
     <<"smashp;", <<10803>>>>, <<"smeparsl;", <<10724>>>>,
     <<"smid;", <<8739>>>>, <<"smile;", <<8995>>>>, <<"smt;", <<10922>>>>,
     <<"smte;", <<10924>>>>, <<"smtes;", <<10924, 65024>>>>,
     <<"softcy;", <<1100>>>>, <<"sol;", <<47>>>>, <<"solb;", <<10692>>>>,
     <<"solbar;", <<9023>>>>, <<"sopf;", <<120164>>>>,
     <<"spades;", <<9824>>>>, <<"spadesuit;", <<9824>>>>,
     <<"spar;", <<8741>>>>, <<"sqcap;", <<8851>>>>,
     <<"sqcaps;", <<8851, 65024>>>>, <<"sqcup;", <<8852>>>>,
     <<"sqcups;", <<8852, 65024>>>>, <<"sqsub;", <<8847>>>>,
     <<"sqsube;", <<8849>>>>, <<"sqsubset;", <<8847>>>>,
     <<"sqsubseteq;", <<8849>>>>, <<"sqsup;", <<8848>>>>,
     <<"sqsupe;", <<8850>>>>, <<"sqsupset;", <<8848>>>>,
     <<"sqsupseteq;", <<8850>>>>, <<"squ;", <<9633>>>>,
     <<"square;", <<9633>>>>, <<"squarf;", <<9642>>>>,
     <<"squf;", <<9642>>>>, <<"srarr;", <<8594>>>>, <<"sscr;", <<120008>>>>,
     <<"ssetmn;", <<8726>>>>, <<"ssmile;", <<8995>>>>,
     <<"sstarf;", <<8902>>>>, <<"star;", <<9734>>>>, <<"starf;", <<9733>>>>,
     <<"straightepsilon;", <<1013>>>>, <<"straightphi;", <<981>>>>,
     <<"strns;", <<175>>>>, <<"sub;", <<8834>>>>, <<"subE;", <<10949>>>>,
     <<"subdot;", <<10941>>>>, <<"sube;", <<8838>>>>,
     <<"subedot;", <<10947>>>>, <<"submult;", <<10945>>>>,
     <<"subnE;", <<10955>>>>, <<"subne;", <<8842>>>>,
     <<"subplus;", <<10943>>>>, <<"subrarr;", <<10617>>>>,
     <<"subset;", <<8834>>>>, <<"subseteq;", <<8838>>>>,
     <<"subseteqq;", <<10949>>>>, <<"subsetneq;", <<8842>>>>,
     <<"subsetneqq;", <<10955>>>>, <<"subsim;", <<10951>>>>,
     <<"subsub;", <<10965>>>>, <<"subsup;", <<10963>>>>,
     <<"succ;", <<8827>>>>, <<"succapprox;", <<10936>>>>,
     <<"succcurlyeq;", <<8829>>>>, <<"succeq;", <<10928>>>>,
     <<"succnapprox;", <<10938>>>>, <<"succneqq;", <<10934>>>>,
     <<"succnsim;", <<8937>>>>, <<"succsim;", <<8831>>>>,
     <<"sum;", <<8721>>>>, <<"sung;", <<9834>>>>, <<"sup1", <<185>>>>,
     <<"sup1;", <<185>>>>, <<"sup2", <<178>>>>, <<"sup2;", <<178>>>>,
     <<"sup3", <<179>>>>, <<"sup3;", <<179>>>>, <<"sup;", <<8835>>>>,
     <<"supE;", <<10950>>>>, <<"supdot;", <<10942>>>>,
     <<"supdsub;", <<10968>>>>, <<"supe;", <<8839>>>>,
     <<"supedot;", <<10948>>>>, <<"suphsol;", <<10185>>>>,
     <<"suphsub;", <<10967>>>>, <<"suplarr;", <<10619>>>>,
     <<"supmult;", <<10946>>>>, <<"supnE;", <<10956>>>>,
     <<"supne;", <<8843>>>>, <<"supplus;", <<10944>>>>,
     <<"supset;", <<8835>>>>, <<"supseteq;", <<8839>>>>,
     <<"supseteqq;", <<10950>>>>, <<"supsetneq;", <<8843>>>>,
     <<"supsetneqq;", <<10956>>>>, <<"supsim;", <<10952>>>>,
     <<"supsub;", <<10964>>>>, <<"supsup;", <<10966>>>>,
     <<"swArr;", <<8665>>>>, <<"swarhk;", <<10534>>>>,
     <<"swarr;", <<8601>>>>, <<"swarrow;", <<8601>>>>,
     <<"swnwar;", <<10538>>>>, <<"szlig", <<223>>>>, <<"szlig;", <<223>>>>,
     <<"target;", <<8982>>>>, <<"tau;", <<964>>>>, <<"tbrk;", <<9140>>>>,
     <<"tcaron;", <<357>>>>, <<"tcedil;", <<355>>>>, <<"tcy;", <<1090>>>>,
     <<"tdot;", <<8411>>>>, <<"telrec;", <<8981>>>>, <<"tfr;", <<120113>>>>,
     <<"there4;", <<8756>>>>, <<"therefore;", <<8756>>>>,
     <<"theta;", <<952>>>>, <<"thetasym;", <<977>>>>,
     <<"thetav;", <<977>>>>, <<"thickapprox;", <<8776>>>>,
     <<"thicksim;", <<8764>>>>, <<"thinsp;", <<8201>>>>,
     <<"thkap;", <<8776>>>>, <<"thksim;", <<8764>>>>, <<"thorn", <<254>>>>,
     <<"thorn;", <<254>>>>, <<"tilde;", <<732>>>>, <<"times", <<215>>>>,
     <<"times;", <<215>>>>, <<"timesb;", <<8864>>>>,
     <<"timesbar;", <<10801>>>>, <<"timesd;", <<10800>>>>,
     <<"tint;", <<8749>>>>, <<"toea;", <<10536>>>>, <<"top;", <<8868>>>>,
     <<"topbot;", <<9014>>>>, <<"topcir;", <<10993>>>>,
     <<"topf;", <<120165>>>>, <<"topfork;", <<10970>>>>,
     <<"tosa;", <<10537>>>>, <<"tprime;", <<8244>>>>,
     <<"trade;", <<8482>>>>, <<"triangle;", <<9653>>>>,
     <<"triangledown;", <<9663>>>>, <<"triangleleft;", <<9667>>>>,
     <<"trianglelefteq;", <<8884>>>>, <<"triangleq;", <<8796>>>>,
     <<"triangleright;", <<9657>>>>, <<"trianglerighteq;", <<8885>>>>,
     <<"tridot;", <<9708>>>>, <<"trie;", <<8796>>>>,
     <<"triminus;", <<10810>>>>, <<"triplus;", <<10809>>>>,
     <<"trisb;", <<10701>>>>, <<"tritime;", <<10811>>>>,
     <<"trpezium;", <<9186>>>>, <<"tscr;", <<120009>>>>,
     <<"tscy;", <<1094>>>>, <<"tshcy;", <<1115>>>>, <<"tstrok;", <<359>>>>,
     <<"twixt;", <<8812>>>>, <<"twoheadleftarrow;", <<8606>>>>,
     <<"twoheadrightarrow;", <<8608>>>>, <<"uArr;", <<8657>>>>,
     <<"uHar;", <<10595>>>>, <<"uacute", <<250>>>>, <<"uacute;", <<250>>>>,
     <<"uarr;", <<8593>>>>, <<"ubrcy;", <<1118>>>>, <<"ubreve;", <<365>>>>,
     <<"ucirc", <<251>>>>, <<"ucirc;", <<251>>>>, <<"ucy;", <<1091>>>>,
     <<"udarr;", <<8645>>>>, <<"udblac;", <<369>>>>,
     <<"udhar;", <<10606>>>>, <<"ufisht;", <<10622>>>>,
     <<"ufr;", <<120114>>>>, <<"ugrave", <<249>>>>, <<"ugrave;", <<249>>>>,
     <<"uharl;", <<8639>>>>, <<"uharr;", <<8638>>>>, <<"uhblk;", <<9600>>>>,
     <<"ulcorn;", <<8988>>>>, <<"ulcorner;", <<8988>>>>,
     <<"ulcrop;", <<8975>>>>, <<"ultri;", <<9720>>>>, <<"umacr;", <<363>>>>,
     <<"uml", <<168>>>>, <<"uml;", <<168>>>>, <<"uogon;", <<371>>>>,
     <<"uopf;", <<120166>>>>, <<"uparrow;", <<8593>>>>,
     <<"updownarrow;", <<8597>>>>, <<"upharpoonleft;", <<8639>>>>,
     <<"upharpoonright;", <<8638>>>>, <<"uplus;", <<8846>>>>,
     <<"upsi;", <<965>>>>, <<"upsih;", <<978>>>>, <<"upsilon;", <<965>>>>,
     <<"upuparrows;", <<8648>>>>, <<"urcorn;", <<8989>>>>,
     <<"urcorner;", <<8989>>>>, <<"urcrop;", <<8974>>>>,
     <<"uring;", <<367>>>>, <<"urtri;", <<9721>>>>, <<"uscr;", <<120010>>>>,
     <<"utdot;", <<8944>>>>, <<"utilde;", <<361>>>>, <<"utri;", <<9653>>>>,
     <<"utrif;", <<9652>>>>, <<"uuarr;", <<8648>>>>, <<"uuml", <<252>>>>,
     <<"uuml;", <<252>>>>, <<"uwangle;", <<10663>>>>, <<"vArr;", <<8661>>>>,
     <<"vBar;", <<10984>>>>, <<"vBarv;", <<10985>>>>,
     <<"vDash;", <<8872>>>>, <<"vangrt;", <<10652>>>>,
     <<"varepsilon;", <<1013>>>>, <<"varkappa;", <<1008>>>>,
     <<"varnothing;", <<8709>>>>, <<"varphi;", <<981>>>>,
     <<"varpi;", <<982>>>>, <<"varpropto;", <<8733>>>>,
     <<"varr;", <<8597>>>>, <<"varrho;", <<1009>>>>,
     <<"varsigma;", <<962>>>>, <<"varsubsetneq;", <<8842, 65024>>>>,
     <<"varsubsetneqq;", <<10955, 65024>>>>,
     <<"varsupsetneq;", <<8843, 65024>>>>,
     <<"varsupsetneqq;", <<10956, 65024>>>>, <<"vartheta;", <<977>>>>,
     <<"vartriangleleft;", <<8882>>>>, <<"vartriangleright;", <<8883>>>>,
     <<"vcy;", <<1074>>>>, <<"vdash;", <<8866>>>>, <<"vee;", <<8744>>>>,
     <<"veebar;", <<8891>>>>, <<"veeeq;", <<8794>>>>,
     <<"vellip;", <<8942>>>>, <<"verbar;", <<124>>>>, <<"vert;", <<124>>>>,
     <<"vfr;", <<120115>>>>, <<"vltri;", <<8882>>>>,
     <<"vnsub;", <<8834, 8402>>>>, <<"vnsup;", <<8835, 8402>>>>,
     <<"vopf;", <<120167>>>>, <<"vprop;", <<8733>>>>,
     <<"vrtri;", <<8883>>>>, <<"vscr;", <<120011>>>>,
     <<"vsubnE;", <<10955, 65024>>>>, <<"vsubne;", <<8842, 65024>>>>,
     <<"vsupnE;", <<10956, 65024>>>>, <<"vsupne;", <<8843, 65024>>>>,
     <<"vzigzag;", <<10650>>>>, <<"wcirc;", <<373>>>>,
     <<"wedbar;", <<10847>>>>, <<"wedge;", <<8743>>>>,
     <<"wedgeq;", <<8793>>>>, <<"weierp;", <<8472>>>>,
     <<"wfr;", <<120116>>>>, <<"wopf;", <<120168>>>>, <<"wp;", <<8472>>>>,
     <<"wr;", <<8768>>>>, <<"wreath;", <<8768>>>>, <<"wscr;", <<120012>>>>,
     <<"xcap;", <<8898>>>>, <<"xcirc;", <<9711>>>>, <<"xcup;", <<8899>>>>,
     <<"xdtri;", <<9661>>>>, <<"xfr;", <<120117>>>>,
     <<"xhArr;", <<10234>>>>, <<"xharr;", <<10231>>>>, <<"xi;", <<958>>>>,
     <<"xlArr;", <<10232>>>>, <<"xlarr;", <<10229>>>>,
     <<"xmap;", <<10236>>>>, <<"xnis;", <<8955>>>>, <<"xodot;", <<10752>>>>,
     <<"xopf;", <<120169>>>>, <<"xoplus;", <<10753>>>>,
     <<"xotime;", <<10754>>>>, <<"xrArr;", <<10233>>>>,
     <<"xrarr;", <<10230>>>>, <<"xscr;", <<120013>>>>,
     <<"xsqcup;", <<10758>>>>, <<"xuplus;", <<10756>>>>,
     <<"xutri;", <<9651>>>>, <<"xvee;", <<8897>>>>, <<"xwedge;", <<8896>>>>,
     <<"yacute", <<253>>>>, <<"yacute;", <<253>>>>, <<"yacy;", <<1103>>>>,
     <<"ycirc;", <<375>>>>, <<"ycy;", <<1099>>>>, <<"yen", <<165>>>>,
     <<"yen;", <<165>>>>, <<"yfr;", <<120118>>>>, <<"yicy;", <<1111>>>>,
     <<"yopf;", <<120170>>>>, <<"yscr;", <<120014>>>>,
     <<"yucy;", <<1102>>>>, <<"yuml", <<255>>>>, <<"yuml;", <<255>>>>,
     <<"zacute;", <<378>>>>, <<"zcaron;", <<382>>>>, <<"zcy;", <<1079>>>>,
     <<"zdot;", <<380>>>>, <<"zeetrf;", <<8488>>>>, <<"zeta;", <<950>>>>,
     <<"zfr;", <<120119>>>>, <<"zhcy;", <<1078>>>>,
     <<"zigrarr;", <<8669>>>>, <<"zopf;", <<120171>>>>,
     <<"zscr;", <<120015>>>>, <<"zwj;", <<8205>>>>, <<"zwnj;", <<8204>>>>}

\* html._invalid_charrefs: the numbers replaced by another character
invalid_charrefs ==
    {<<0, 65533>>, <<13, 13>>, <<128, 8364>>, <<129, 129>>, <<130, 8218>>,
     <<131, 402>>, <<132, 8222>>, <<133, 8230>>, <<134, 8224>>,
     <<135, 8225>>, <<136, 710>>, <<137, 8240>>, <<138, 352>>,
     <<139, 8249>>, <<140, 338>>, <<141, 141>>, <<142, 381>>, <<143, 143>>,
     <<144, 144>>, <<145, 8216>>, <<146, 8217>>, <<147, 8220>>,
     <<148, 8221>>, <<149, 8226>>, <<150, 8211>>, <<151, 8212>>,
     <<152, 732>>, <<153, 8482>>, <<154, 353>>, <<155, 8250>>, <<156, 339>>,
     <<157, 157>>, <<158, 382>>, <<159, 376>>}

\* html._invalid_codepoints, as ranges: the numbers replaced by nothing
invalid_codepoints ==
    {<<1, 8>>, <<11, 11>>, <<14, 31>>, <<127, 159>>, <<64976, 65007>>,
     <<65534, 65535>>, <<131070, 131071>>, <<196606, 196607>>,
     <<262142, 262143>>, <<327678, 327679>>, <<393214, 393215>>,
     <<458750, 458751>>, <<524286, 524287>>, <<589822, 589823>>,
     <<655358, 655359>>, <<720894, 720895>>, <<786430, 786431>>,
     <<851966, 851967>>, <<917502, 917503>>, <<983038, 983039>>,
     <<1048574, 1048575>>, <<1114110, 1114111>>}

\* the value of the hexadecimal digit ch
DigitValue(ch) ==
    IF ch \in Digits THEN ch - ord["0"]
    ELSE IF ch >= ord["a"] THEN ch - ord["a"] + 10
    ELSE ch - ord["A"] + 10

RECURSIVE DigitsValue(_, _, _, _)
DigitsValue(c, lo, hi, base) ==
    IF lo > hi THEN 0
    ELSE DigitsValue(c, lo, hi - 1, base) * base + DigitValue(c[hi])

\* int(c[lo-1:hi], base) of a run of digits, 1114112 for every number
\* above the last code point 0x10FFFF
int(c, lo, hi, base) ==
    LET first == SkipWhile(c, lo, {ord["0"]})
    IN  IF first > hi THEN 0
        ELSE IF hi - first + 1 > 7 THEN 1114112
        ELSE IF DigitsValue(c, first, hi, base) > 1114111 THEN 1114112
        ELSE DigitsValue(c, first, hi, base)

\* _replace_charref for a numeric reference
NumericCharref(num) ==
    IF \E p \in invalid_charrefs : p[1] = num
    THEN <<(CHOOSE p \in invalid_charrefs : p[1] = num)[2]>>
    ELSE IF (55296 <= num /\ num <= 57343) \/ num > 1114111
    THEN <<65533>>
    ELSE IF InRanges(num, invalid_codepoints)
    THEN << >>
    ELSE <<num>>

\* the literal of a text of ASCII characters
RECURSIVE Literal(_)
Literal(s) ==
    IF s = << >> THEN ""
    ELSE (IF s[1] < 96
          THEN SubSeq(Ascii, s[1] - 31, s[1] - 31)
          ELSE SubSeq(AsciiLower, s[1] - 96, s[1] - 96)) \o Literal(Tail(s))

\* s in html5
IsEntity(s) ==
    /\ \A k \in 1..Len(s) : s[k] \in Letters \cup Digits \cup {ord[";"]}
    /\ \E e \in html5 : e[1] = Literal(s)

EntityValue(s) == (CHOOSE e \in html5 : e[1] = Literal(s))[2]

\* the replacement for the name s and its prefix of length x, the longest
\* one that is an entity
PrefixEntity(s, x) == EntityValue(SubSeq(s, 1, x)) \o SubSeq(s, x + 1, Len(s))

LongestEntity(s, lengths) ==
    IF lengths = {} THEN Text("&") \o s ELSE PrefixEntity(s, Max(lengths))

\* _replace_charref for a named reference s
NamedCharref(s) ==
    IF IsEntity(s)
    THEN EntityValue(s)
    ELSE LongestEntity(s, {x \in 2..(Len(s) - 1) : IsEntity(SubSeq(s, 1, x))})

\* the characters a name of _charref does not hold: [^\t\n\f <&#;]
NameStops ==
    {ord["\t"], ord["\n"], ord["\f"], ord[" "], ord["<"], ord["&"], ord["#"],
     ord[";"]}

\* one more if the character at i is ";" (the trailing ;? of _charref)
Semicolon(s, i) == IF At(s, i) = ord[";"] THEN i + 1 ELSE i

\* the position after the match of _charref at the "&" at a, 0 if it does
\* not match: &#digits, &#x and hexadecimal digits, or & and up to 32
\* name characters, each with an optional ";"
CharrefEnd(s, a) ==
    IF At(s, a + 1) = ord["#"]
    THEN IF At(s, a + 2) \in Digits
         THEN Semicolon(s, SkipWhile(s, a + 2, Digits))
         ELSE IF At(s, a + 2) \in {ord["x"], ord["X"]} /\ At(s, a + 3) \in HexDigits
         THEN Semicolon(s, SkipWhile(s, a + 3, HexDigits))
         ELSE 0
    ELSE IF At(s, a + 1) = -1 \/ At(s, a + 1) \in NameStops
    THEN 0
    ELSE IF SkipUntil(s, a + 1, NameStops) > a + 33
    THEN a + 33
    ELSE Semicolon(s, SkipUntil(s, a + 1, NameStops))

\* _replace_charref on the match s[a .. e-1]
Replacement(s, a, e) ==
    IF s[a + 1] # ord["#"]
    THEN NamedCharref(SubSeq(s, a + 1, e - 1))
    ELSE IF s[a + 2] \in Digits
    THEN NumericCharref(int(s, a + 2, SkipWhile(s, a + 2, Digits) - 1, 10))
    ELSE NumericCharref(int(s, a + 3, SkipWhile(s, a + 3, HexDigits) - 1, 16))

\* _charref.sub(_replace_charref, s) from position i on: no match holds a
\* second "&", so that each "&" is tried in turn
RECURSIVE unescape_from(_, _)

Unescaped(s, i, a, e) ==
    IF e = 0
    THEN SubSeq(s, i, a) \o unescape_from(s, a + 1)
    ELSE SubSeq(s, i, a - 1) \o Replacement(s, a, e) \o unescape_from(s, e)

NextCharref(s, i, a) ==
    IF a = 0 THEN SubSeq(s, i, Len(s)) ELSE Unescaped(s, i, a, CharrefEnd(s, a))

unescape_from(s, i) == NextCharref(s, i, Find(s, Text("&"), i))

\* html.unescape(s)
unescape(s) == unescape_from(s, 1)

\* int() raises ValueError on more than 4300 decimal digits (the limit
\* sys.get_int_max_str_digits()): a run of that many digits follows the
\* "&#" at a
TooManyDigits(s, a) ==
    /\ At(s, a) = ord["&"]
    /\ At(s, a + 1) = ord["#"]
    /\ SkipWhile(s, a + 2, Digits) - (a + 2) > 4300

\* html.unescape(s) raises
unescape_raises(s) == \E a \in 1..Len(s) : TooManyDigits(s, a)

----------------------------------------------------------------------------
(* BeautifulSoup(code, 'html.parser'), app.py line 148: the start tags     *)
(* Python's html.parser reports, each of which becomes one element of the  *)
(* tree.                                                                   *)

\* (?:\s|/(?!>))* from i: whitespace, and slashes not followed by ">"
IsSep(c, k) ==
    At(c, k) \in Whitespace \/ (At(c, k) = ord["/"] /\ At(c, k + 1) # ord[">"])

SkipSep(c, i) ==
    IF \A k \in i..Len(c) : IsSep(c, k)
    THEN Len(c) + 1
    ELSE CHOOSE k \in i..Len(c) : ~IsSep(c, k) /\ \A m \in i..(k - 1) : IsSep(c, m)

\* tagfind_tolerant: the tag name [a-zA-Z][^\t\n\r\f />\x00]* that starts at i
TagNameEnd(c, i) ==
    SkipUntil(c, i, {ord["\t"], ord["\n"], ord["\r"], ord["\f"], ord[" "],
                     ord["/"], ord[">"], 0})

Quotes == {ord["'"], ord["\""]}

\* attrfind_tolerant's value part (\s*=+\s*('[^']*'|"[^"]*"|(?!['"])[^>\s]*))?
\* tried at the end of an attribute name: whether it matches, the value
\* (quotes removed as parse_starttag does) and where it ends
AttrValue(c, name_end) ==
    LET q1 == SkipWhile(c, name_end, Whitespace)
        q2 == SkipWhile(c, q1, {ord["="]})
        q3 == SkipWhile(c, q2, Whitespace)
        quote == At(c, q3)
        close == IF quote \in Quotes THEN Find(c, <<quote>>, q3 + 1) ELSE 0
        bare_end == SkipUntil(c, q3, Whitespace \cup {ord[">"]})
        \* an opening quote that is never closed: the regex backtracks
        eq_end == SkipUntil(c, q2 - 1, Whitespace \cup {ord[">"]})
    IN  IF At(c, q1) # ord["="]
        THEN [has |-> FALSE, value |-> << >>, end |-> name_end]
        ELSE IF close # 0
        THEN [has |-> TRUE, value |-> SubSeq(c, q3 + 1, close - 1), end |-> close + 1]
        ELSE IF quote \notin Quotes
        THEN [has |-> TRUE, value |-> SubSeq(c, q3, bare_end - 1), end |-> bare_end]
        ELSE IF q3 > q2
        THEN [has |-> TRUE, value |-> << >>, end |-> q3 - 1]
        ELSE IF q2 - q1 >= 2
        THEN [has |-> TRUE, value |-> SubSeq(c, q2 - 1, eq_end - 1), end |-> eq_end]
        ELSE [has |-> FALSE, value |-> << >>, end |-> name_end]

\* whether attrfind_tolerant matches at k: an attribute name
\* (?<=['"\s/])[^\s/>][^\s/=>]* can start there
AttrStarts(c, k) ==
    /\ At(c, k - 1) \in Whitespace \cup Quotes \cup {ord["/"]}
    /\ At(c, k) # -1
    /\ At(c, k) \notin Whitespace \cup {ord["/"], ord[">"]}

\* parse_starttag's attribute loop from k: the attributes as the tree
\* builder keeps them (names lowered, values unescaped, a missing value
\* empty, the last of a repeated name wins), whether unescape raised, and
\* the position where the loop stops
RECURSIVE AttrLoop(_, _, _, _)

\* one attribute, its name lowered and its value v unescaped, is kept
AddAttr(c, attrname, v, attrs, raised) ==
    AttrLoop(c, SkipSep(c, v.end), (lower(attrname) :> unescape(v.value)) @@ attrs,
             raised \/ unescape_raises(v.value))

\* the attribute whose name is c[k .. name_end - 1]
OneAttr(c, k, name_end, attrs, raised) ==
    AddAttr(c, SubSeq(c, k, name_end - 1), AttrValue(c, name_end), attrs, raised)

AttrLoop(c, k, attrs, raised) ==
    IF ~AttrStarts(c, k)
    THEN [attrs |-> attrs, end |-> k, raised |-> raised]
    ELSE OneAttr(c, k,
                 SkipUntil(c, k + 1, Whitespace \cup {ord["/"], ord["="], ord[">"]}),
                 attrs, raised)

NoAttrs == [x \in {} |-> << >>]

\* parse_starttag at the "<" at i: next is where parsing goes on (0 when
\* check_for_whole_start_tag finds the tag incomplete), found whether a
\* start tag was reported, cdata whether the tag opens script or style,
\* raised whether unescape raised on an attribute value
NoStartTag == [next |-> 0, found |-> FALSE, name |-> << >>, attrs |-> NoAttrs,
               cdata |-> << >>, raised |-> FALSE]

CDATA_CONTENT_ELEMENTS == {Text("script"), Text("style")}

\* the tag's end at loop.end, where the attribute loop stopped: ">" or
\* "/>", or the junk check_for_whole_start_tag sees there
StartTagEnd(c, name, loop, k) ==
    IF At(c, k) = ord["/"] /\ At(c, k + 1) = ord[">"]
    THEN [next |-> k + 2, found |-> ~loop.raised, name |-> name,
          attrs |-> loop.attrs, cdata |-> << >>, raised |-> loop.raised]
    ELSE IF At(c, k) = ord[">"]
    THEN [next |-> k + 1, found |-> ~loop.raised, name |-> name,
          attrs |-> loop.attrs,
          cdata |-> IF name \in CDATA_CONTENT_ELEMENTS THEN name ELSE << >>,
          raised |-> loop.raised]
    ELSE IF At(c, k) = -1 \/ At(c, k) \in Letters \cup {ord["="], ord["/"]}
    THEN NoStartTag
    ELSE [NoStartTag EXCEPT !.next = k, !.raised = loop.raised]

StartTagAttrs(c, name, loop) == StartTagEnd(c, name, loop, loop.end)

StartTagNamed(c, i, name_end) ==
    StartTagAttrs(c, lower(SubSeq(c, i + 1, name_end - 1)),
                  AttrLoop(c, SkipSep(c, name_end), NoAttrs, FALSE))

parse_starttag(c, i) == StartTagNamed(c, i, TagNameEnd(c, i + 1))

\* _markupbase.parse_comment: the position after the first --\s*> found
\* from i + 4, 0 if the comment is not closed
parse_comment(c, i) ==
    LET Closes(p) == /\ StartsWithAt(c, Text("--"), p)
                     /\ At(c, SkipWhile(c, p + 2, Whitespace)) = ord[">"]
    IN  IF \E p \in (i + 4)..Len(c) : Closes(p)
        THEN SkipWhile(c, 2 + (CHOOSE p \in (i + 4)..Len(c) :
                                  Closes(p) /\ \A m \in (i + 4)..(p - 1) : ~Closes(m)),
                       Whitespace) + 1
        ELSE 0

\* _markupbase.parse_marked_section at the "<![" at i: the position after
\* the section's end, 0 if it is incomplete; rejected when the keyword is
\* missing or unknown (the AssertionError of _markupbase)
parse_marked_section(c, i) ==
    LET name_end == SkipWhile(c, i + 4,
                        Letters \cup Digits \cup {ord["-"], ord["_"], ord["."]})
        m_end == SkipWhile(c, name_end, Whitespace)
        sectName == lower(SubSeq(c, i + 3, name_end - 1))
        double == sectName \in {Text("temp"), Text("cdata"), Text("ignore"),
                                Text("include"), Text("rcdata")}
        Closes(p) ==
            /\ At(c, p) = ord["]"]
            /\ LET p2 == SkipWhile(c, p + 1, Whitespace)
               IN  IF double
                   THEN /\ At(c, p2) = ord["]"]
                        /\ At(c, SkipWhile(c, p2 + 1, Whitespace)) = ord[">"]
                   ELSE At(c, p2) = ord[">"]
        CloseEnd(p) ==
            LET p2 == SkipWhile(c, p + 1, Whitespace)
            IN  IF double THEN SkipWhile(c, p2 + 1, Whitespace) + 1 ELSE p2 + 1
    IN  IF i + 3 > Len(c)
        THEN [next |-> 0, rejected |-> FALSE]
        ELSE IF At(c, i + 3) \notin Letters
        THEN [next |-> 0, rejected |-> TRUE]
        ELSE IF m_end > Len(c)
        THEN [next |-> 0, rejected |-> FALSE]
        ELSE IF ~double /\ sectName \notin {Text("if"), Text("else"), Text("endif")}
        THEN [next |-> 0, rejected |-> TRUE]
        ELSE IF \E p \in (i + 3)..Len(c) : Closes(p)
        THEN [next |-> CloseEnd(CHOOSE p \in (i + 3)..Len(c) :
                                   Closes(p) /\ \A m \in (i + 3)..(p - 1) : ~Closes(m)),
              rejected |-> FALSE]
        ELSE [next |-> 0, rejected |-> FALSE]

\* parse_html_declaration at the "<!" at i
parse_html_declaration(c, i) ==
    IF StartsWithAt(c, Text("<!["), i)
    THEN parse_marked_section(c, i)
    ELSE IF lower(Slice(c, i, i + 8)) = Text("<!doctype")
    THEN [next |-> AfterGt(c, i + 9), rejected |-> FALSE]
    ELSE [next |-> AfterGt(c, i + 2), rejected |-> FALSE]

\* ch matches the lowercase letter e of a pattern compiled with re.I: e,
\* its capital, and the letters Unicode folds to it (the long s to "s",
\* the dotted capital I and the dotless i to "i")
Folds(ch, e) ==
    \/ ch = e
    \/ ch = e - 32
    \/ e = ord["s"] /\ ch = 383
    \/ e = ord["i"] /\ ch \in {304, 305}

\* set_cdata_mode's pattern </\s*elem\s*> with re.I, tried at p: the name
\* starts at p1; the position after the match, 0 if it does not match
CdataCloseAt(c, p, elem, p1) ==
    IF /\ StartsWithAt(c, Text("</"), p)
       /\ p1 + Len(elem) - 1 <= Len(c)
       /\ \A k \in 1..Len(elem) : Folds(c[p1 + k - 1], elem[k])
       /\ At(c, SkipWhile(c, p1 + Len(elem), Whitespace)) = ord[">"]
    THEN SkipWhile(c, p1 + Len(elem), Whitespace) + 1
    ELSE 0

CdataCloseEnd(c, p, elem) == CdataCloseAt(c, p, elem, SkipWhile(c, p + 2, Whitespace))

\* in script or style: the first position >= i where the pattern matches,
\* 0 if there is none
CdataClose(c, i, elem) ==
    IF \E p \in i..Len(c) : CdataCloseEnd(c, p, elem) # 0
    THEN CHOOSE p \in i..Len(c) :
            /\ CdataCloseEnd(c, p, elem) # 0
            /\ \A m \in i..(p - 1) : CdataCloseEnd(c, m, elem) = 0
    ELSE 0

\* parse_endtag at such a match at p: endtagfind, whose name is made of
\* ASCII characters, must match as well for the element to be closed
ClosesCdata(c, p, elem) ==
    \A k \in 1..Len(elem) :
        c[SkipWhile(c, p + 2, Whitespace) + k - 1] \in {elem[k], elem[k] - 32}

\* the parser before the first character: position, the script or style
\* element it is inside (cdata_elem), the start tags reported so far,
\* whether the markup was rejected, whether the parse is over, and
\* whether feed() has returned and close() runs the loop (end)
ParserStart == [i |-> 1, cdata_elem |-> << >>, tags |-> << >>,
                rejected |-> FALSE, done |-> FALSE, end |-> FALSE]

\* a `break` of goahead's loop at i: during feed() the rest of the text is
\* kept and close() runs the loop on it; during close() the rest is data
Break(s, i) ==
    IF s.end THEN [s EXCEPT !.i = i, !.done = TRUE] ELSE [s EXCEPT !.i = i, !.end = TRUE]

\* an exception leaves BeautifulSoup(): no tree
Rejected(s) == [s EXCEPT !.rejected = TRUE, !.done = TRUE, !.tags = << >>]

\* goahead after a construct at j that parsed to k: k = 0 is a construct
\* that is not complete, which ends feed()'s loop; in close() the text up
\* to the next ">" or "<" is data
Resume(c, s, j, k) ==
    IF k # 0 THEN [s EXCEPT !.i = k]
    ELSE IF ~s.end THEN Break(s, j)
    ELSE IF AfterGt(c, j + 1) # 0 THEN [s EXCEPT !.i = AfterGt(c, j + 1)]
    ELSE IF Find(c, Text("<"), j + 1) # 0 THEN [s EXCEPT !.i = Find(c, Text("<"), j + 1)]
    ELSE [s EXCEPT !.i = j + 1]

\* handle_starttag: the tree builder adds the element; script and style
\* switch the parser to CDATA mode
StartTagAdded(s, st) ==
    [s EXCEPT !.cdata_elem = st.cdata,
              !.tags = IF st.found
                       THEN Append(@, [name |-> st.name, attrs |-> st.attrs])
                       ELSE @]

StartTagTurn(c, s, j, st) ==
    IF st.raised THEN Rejected(s) ELSE Resume(c, StartTagAdded(s, st), j, st.next)

\* a declaration: AssertionError from _markupbase rejects the markup
DeclarationTurn(c, s, j, decl) ==
    IF decl.rejected THEN Rejected(s) ELSE Resume(c, s, j, decl.next)

\* inside script or style: everything up to the closing tag is data
CdataTurn(c, s, p) ==
    IF p = 0
    THEN Break(s, s.i)
    ELSE [s EXCEPT !.i = CdataCloseEnd(c, p, s.cdata_elem),
                   !.cdata_elem = IF ClosesCdata(c, p, @) THEN << >> ELSE @]

\* the construct at the "<" at j
MarkupTurn(c, s, j) ==
    IF At(c, j + 1) \in Letters
    THEN StartTagTurn(c, s, j, parse_starttag(c, j))
    ELSE IF StartsWithAt(c, Text("</"), j)
    THEN Resume(c, s, j, AfterGt(c, j + 1))
    ELSE IF StartsWithAt(c, Text("<!--"), j)
    THEN Resume(c, s, j, parse_comment(c, j))
    ELSE IF StartsWithAt(c, Text("<?"), j)
    THEN Resume(c, s, j, AfterGt(c, j + 2))
    ELSE IF StartsWithAt(c, Text("<!"), j)
    THEN DeclarationTurn(c, s, j, parse_html_declaration(c, j))
    ELSE IF j < Len(c)
    THEN [s EXCEPT !.i = j + 1]
    ELSE Break(s, j)

\* the position of the character that ends the match of charref,
\* &#(?:[0-9]+|[xX][0-9a-fA-F]+)[^0-9a-fA-F], at the "&#" at j; 0 if it
\* does not match
CharrefTerminator(c, j) ==
    LET t == IF At(c, j + 2) \in Digits
             THEN SkipWhile(c, j + 2, Digits)
             ELSE IF At(c, j + 2) \in {ord["x"], ord["X"]} /\ At(c, j + 3) \in HexDigits
             THEN SkipWhile(c, j + 3, HexDigits)
             ELSE 0
    IN  IF t # 0 /\ t <= Len(c) /\ c[t] \notin HexDigits THEN t ELSE 0

\* where the loop goes on after a reference that ends with the character
\* at t: after it if it is ";", at it otherwise
AfterReference(c, t) == IF c[t] = ord[";"] THEN t + 1 ELSE t

\* the "&#" at j: a character reference is data for the tree builder,
\* whose handle_charref calls int() on a decimal one; "&#" without a
\* reference ends the loop, consumed if a ";" follows somewhere
CharrefTurn(c, s, j, t) ==
    IF t # 0
    THEN IF TooManyDigits(c, j) THEN Rejected(s) ELSE [s EXCEPT !.i = AfterReference(c, t)]
    ELSE IF Find(c, Text(";"), j) # 0
    THEN Break(s, j + 2)
    ELSE Break(s, j)

\* the characters of an entity name after its first letter: [-.a-zA-Z0-9]
NameChars == Letters \cup Digits \cup {ord["-"], ord["."]}

\* the position of the character that ends the match of entityref,
\* &([a-zA-Z][-.a-zA-Z0-9]*)[^a-zA-Z0-9], at the "&" at j: the character
\* after the name, or the name's last "-" or "." when the name runs to the
\* end of the text; 0 if it does not match
EntityrefTerminator(c, j) ==
    LET run_end == SkipWhile(c, j + 2, NameChars)
        marks == {p \in (j + 2)..Len(c) : c[p] \in {ord["-"], ord["."]}}
    IN  IF At(c, j + 1) \notin Letters THEN 0
        ELSE IF run_end <= Len(c) THEN run_end
        ELSE IF marks # {} THEN Max(marks)
        ELSE 0

\* the "&" at j that starts no "&#": an entity reference is data; "&" and
\* a letter (incomplete) ends the loop; another "&" is data
EntityrefTurn(c, s, j, t) ==
    IF t # 0
    THEN [s EXCEPT !.i = AfterReference(c, t)]
    ELSE IF At(c, j + 1) \in Letters
    THEN Break(s, IF s.end /\ j + 1 = Len(c) THEN j + 1 ELSE j)
    ELSE IF j < Len(c)
    THEN [s EXCEPT !.i = j + 1]
    ELSE Break(s, j)

\* the construct at j, the first "<" or "&" (interesting_normal) from the
\* parser's position on; without one the rest of the text is data
NormalTurn(c, s, j) ==
    IF j > Len(c)
    THEN [s EXCEPT !.i = j, !.done = TRUE]
    ELSE IF c[j] = ord["<"]
    THEN MarkupTurn(c, s, j)
    ELSE IF At(c, j + 1) = ord["#"]
    THEN CharrefTurn(c, s, j, CharrefTerminator(c, j))
    ELSE EntityrefTurn(c, s, j, EntityrefTerminator(c, j))

\* one turn of HTMLParser.goahead's loop (in feed(), then in close()) from
\* parser state s: the next construct is consumed and a start tag is
\* added to the elements of the tree, or the markup is rejected, or the
\* text is finished
goahead_step(c, s) ==
    IF s.done
    THEN s
    ELSE IF s.i > Len(c)
    THEN [s EXCEPT !.done = TRUE]
    ELSE IF s.cdata_elem # << >>
    THEN CdataTurn(c, s, CdataClose(c, s.i, s.cdata_elem))
    ELSE NormalTurn(c, s, SkipUntil(c, s.i, {ord["<"], ord["&"]}))

\* n turns of the loop, or fewer when the text is finished before; the
\* turns are split in halves to keep the evaluation shallow
RECURSIVE goahead(_, _, _)

SecondHalf(c, half, n) == IF half.done THEN half ELSE goahead(c, half, n)

goahead(c, s, n) ==
    IF s.done \/ n = 0 THEN s
    ELSE IF n = 1 THEN goahead_step(c, s)
    ELSE SecondHalf(c, goahead(c, s, n \div 2), n - (n \div 2))

\* BeautifulSoup(code, 'html.parser'): the parser run to the end of the
\* text: every turn consumes a "<" or an "&", but the one that passes from
\* feed() to close() and the last two.  rejected stands for the exception
\* the constructor raises: ParserRejectedMarkup when html.parser rejects
\* the markup, ValueError from int()
BeautifulSoup(c) ==
    goahead(c, ParserStart,
            Cardinality({k \in 1..Len(c) : c[k] \in {ord["<"], ord["&"]}}) + 3)

----------------------------------------------------------------------------
(* analyze_code_structure, app.py lines 145-161 *)

\* re.findall(r'\S+', value): the class tokens the tree keeps for a tag
RECURSIVE Tokens(_, _)
Tokens(value, from) ==
    LET a == SkipWhile(value, from, Whitespace)
        b == SkipUntil(value, a, Whitespace)
    IN  IF a > Len(value)
        THEN << >>
        ELSE <<SubSeq(value, a, b - 1)>> \o Tokens(value, b)

\* ' '.join(tokens)
RECURSIVE Join(_)
Join(tokens) ==
    IF tokens = << >> THEN << >>
    ELSE IF Len(tokens) = 1 THEN tokens[1]
    ELSE tokens[1] \o Text(" ") \o Join(Tail(tokens))

\* class_=lambda x: x and frag in x, as bs4 applies it to a tag: to each
\* class token, then to the tokens joined; x is None without the attribute
TokensMatch(tokens, frag) ==
    \/ \E k \in 1..Len(tokens) : tokens[k] # << >> /\ Contains(tokens[k], frag)
    \/ Join(tokens) # << >> /\ Contains(Join(tokens), frag)

\* faulty variant of ClassMatches: class_=frag, a class token equal to frag
ClassMatches_whole_token(tag, frag) ==
    /\ Text("class") \in DOMAIN tag.attrs
    /\ \E k \in 1..Len(Tokens(tag.attrs[Text("class")], 1)) :
           Tokens(tag.attrs[Text("class")], 1)[k] = frag

ClassMatches(tag, frag) ==
    /\ Text("class") \in DOMAIN tag.attrs
    /\ TokensMatch(Tokens(tag.attrs[Text("class")], 1), frag)

\* faulty variant of find_all: find_all(class_=...), any tag name
find_all_any_name(soup, name, frag) ==
    SelectSeq(soup.tags, LAMBDA tag : ClassMatches(tag, frag))

\* soup.find_all(name, class_=lambda x: x and frag in x)
find_all(soup, name, frag) ==
    SelectSeq(soup.tags, LAMBDA tag : tag.name = name /\ ClassMatches(tag, frag))

\* lines 149-161: the results, or None when BeautifulSoup raised
results(c, soup) ==
        IF soup.rejected
        THEN None
        ELSE [has_doctype |-> StartsWithAt(strip(c), Text("<!DOCTYPE html>"), 1),
              has_bootstrap_css |->
                  Contains(c, Text("bootstrap")) /\ Contains(c, Text(".css")),
              has_bootstrap_js |->
                  Contains(c, Text("bootstrap")) /\ Contains(c, Text(".js")),
              has_container |-> Len(find_all(soup, Text("div"), Text("container"))) > 0,
              row_count |-> Len(find_all(soup, Text("div"), Text("row"))),
              has_custom_css |-> Contains(c, Text("<style>")),
              has_media_query |-> Contains(c, Text("@media")),
              col_elements |-> Len(find_all(soup, Text("div"), Text("col-")))]

analyze_code_structure(c) == results(c, BeautifulSoup(c))

\* app.py lines 223-232: sum([...]) over the eight criteria
Bool(b) == IF b THEN 1 ELSE 0

structure_score(st) ==
    Bool(st.has_doctype) + Bool(st.has_bootstrap_css) + Bool(st.has_bootstrap_js)
    + Bool(st.has_container) + Bool(st.row_count >= 2) + Bool(st.has_custom_css)
    + Bool(st.has_media_query) + Bool(st.col_elements >= 6)

----------------------------------------------------------------------------
(* The Streamlit script, app.py lines 163-275: one run from top to bottom  *)

\* float comparison r >= n/d of a ratio r, exact on the rationals
AtLeast(r, n, d) == r.num * d >= n * r.den

\* faulty variant of SimilarityTier: cutoffs exclusive
SimilarityTier_exclusive(r) ==
    IF r.num * 100 > 95 * r.den THEN "Excellent match!"
    ELSE IF r.num * 100 > 80 * r.den THEN "Good match with minor differences"
    ELSE "Significant differences detected"

\* lines 205-210
SimilarityTier(r) ==
    IF AtLeast(r, 95, 100) THEN "Excellent match!"
    ELSE IF AtLeast(r, 80, 100) THEN "Good match with minor differences"
    ELSE "Significant differences detected"

\* lines 214-219 (7 and 4, in half points)
AiTier(ai_score) ==
    IF ai_score >= 14 THEN "Highly likely AI-generated"
    ELSE IF ai_score >= 8 THEN "Possibly AI-assisted"
    ELSE "Likely human-written"

\* lines 222-233: the structure score is computed and shown `if structure`
StructureScoreShown(st) == IF st # None THEN <<structure_score(st)>> ELSE << >>

\* faulty variant of StructureMessage: nothing is shown for None
StructureMessage_silent(st) == << >>

\* lines 242-253: the facts, or the parse failure message
StructureMessage(st) == IF st # None THEN << >> ELSE <<"Could not parse HTML structure">>

\* lines 257-262
IndicatorMessage(indicators) ==
    IF indicators # << >> THEN << >> ELSE <<"No strong AI indicators detected">>

\* lines 180-184: the button's handler
ButtonHandler(text, button, ss) ==
    IF button /\ strip(text) # << >> THEN ("analyze" :> TRUE) @@ ss ELSE ss

ButtonMessage(text, button) ==
    IF button /\ strip(text) = << >> THEN <<"Please enter some code to analyze!">> ELSE << >>

\* faulty variant of AnalysisGuard: the text is not looked at
AnalysisGuard_flag_only(text, ss) == "analyze" \in DOMAIN ss /\ ss["analyze"]

\* line 187: the guard of the analysis section
AnalysisGuard(text, ss) ==
    /\ "analyze" \in DOMAIN ss
    /\ ss["analyze"]
    /\ strip(text) # << >>

NoAnalysis ==
    [called |-> << >>, similarity |-> << >>, ai_score |-> << >>,
     structure |-> << >>, structure_score |-> << >>, indicators |-> << >>,
     comparison |-> FALSE, messages |-> << >>]

\* lines 200-271: what is shown of the three results
Results(r, st, ai) ==
    [called |-> <<"calculate_similarity", "analyze_code_structure",
                  "check_ai_indicators">>,
     similarity |-> <<r>>,
     ai_score |-> <<ai.ai_score>>,
     structure |-> <<st>>,
     structure_score |-> StructureScoreShown(st),
     indicators |-> ai.indicators,
     comparison |-> r.num < r.den,
     messages |-> <<SimilarityTier(r), AiTier(ai.ai_score)>>
                  \o StructureMessage(st) \o IndicatorMessage(ai.indicators)]

\* lines 188-198: the three calls
AnalysisSection(text) ==
    Results(calculate_similarity(text, EXPECTED_HTML),
            analyze_code_structure(text),
            check_ai_indicators(text))

\* s * n
Repeat(s, n) == [k \in 1..(n * Len(s)) |-> s[((k - 1) % Len(s)) + 1]] \o << >>

\* the line ends of the reference document, and the k-th of them
LineEnds == {p \in 1..Len(EXPECTED_HTML) : EXPECTED_HTML[p] = ord["\n"]}

LineEnd(k) == CHOOSE p \in LineEnds : Cardinality({q \in LineEnds : q <= p}) = k

FirstLines(k) == SubSeq(EXPECTED_HTML, 1, LineEnd(k))

\* texts a user pastes: the reference document typed up to some line, the
\* whole of it, padded, cut and filled up, and a few short texts
UITexts ==
    {FirstLines(k) : k \in {n \in 1..Cardinality(LineEnds) : n % 2 = 1}}
    \cup {<< >>, Text(" \n\t "), <<11, 160, 8232>>, Text("hello"), Text("<![x["),
          Text("<div class=\"row\"><![x["),
          EXPECTED_HTML, Text("\n  ") \o EXPECTED_HTML \o Text(" \n"),
          SubSeq(EXPECTED_HTML, 1, 2071) \o Repeat(Text("~"), 42),
          SubSeq(EXPECTED_HTML, 1, 1536) \o Repeat(Text("~"), 57),
          Text("<!DOCTYPE html>\n<html lang=\"en\">\n<meta charset=\"UTF-8\">\n"
               \o "<meta name=\"viewport\">\n<style>@media</style>\n"
               \o "<script src=\"cdn.jsdelivr.net\">\n<section>")}

\* the analysis of each text, computed once (the three calls are pure)
Analysis == Table([t \in UITexts |-> AnalysisSection(t)])

\* One run of the script, lines 163-275, with the text area holding `text`
\* and st.button returning `button`
RunScript(text, button) ==
    LET ss == ButtonHandler(text, button, session_state)
        shown == IF AnalysisGuard(text, ss) THEN Analysis[text] ELSE NoAnalysis
    IN  /\ user_code' = text
        /\ clicked' = button
        /\ session_state' = ss
        /\ page' = [shown EXCEPT !.messages = ButtonMessage(text, button) \o @]

----------------------------------------------------------------------------
(* Specifications *)

IdleIndicators == code = << >> /\ ai_result = NotCalled
IdleSimilarity == text1 = << >> /\ text2 = << >> /\ similarity = NotCalled
IdleStructure == structure = NotCalled
IdleUI ==
    /\ user_code = << >>
    /\ clicked = FALSE
    /\ session_state = [k \in {} |-> TRUE]
    /\ page = NoAnalysis

uiVars == <<user_code, clicked, session_state, page>>

(* check_ai_indicators on texts put together from one fragment per check;  *)
(* the indentation is two spaces, or a vertical tab and a no-break space   *)

MaxComments == 3
MaxRowDivs == 2

IndicatorTexts ==
    {ind \o Repeat(Text("<!-- note -->"), nc) \o sem \o boot \o css \o kebab \o doc
         \o cdn \o Repeat(Text("<div class=\"row g-3\">"), nr) \o lang :
       ind \in {<< >>, Text("  <p>\n"), <<11, 160>> \o Text("<p>\n")},
       nc \in 0..MaxComments,
       sem \in {<< >>, Text("<section>")},
       boot \in {<< >>, Text("<p class='col-6 bg-dark text-dark mt-1 mb-1'>"),
                 Text("<p class='col-6 bg-dark text-dark mt-1 mb-1 p-1'>")},
       css \in {<< >>, Text("@media"), Text("<style>@media")},
       kebab \in {<< >>, Text("<b class=\"top-bar\">")},
       doc \in {<< >>, Text("<!DOCTYPE html><meta name=\"viewport\">")},
       cdn \in {<< >>, Text("cdnjs.cloudflare.com")},
       nr \in 0..MaxRowDivs,
       lang \in {<< >>, Text("lang=\"en\" charset=\"UTF-8\"")}}

InitIndicators ==
    /\ code \in IndicatorTexts
    /\ ai_result = NotCalled
    /\ IdleSimilarity /\ IdleStructure /\ IdleUI

CheckAiIndicators ==
    /\ ai_result = NotCalled
    /\ ai_result' = check_ai_indicators(code)
    /\ UNCHANGED <<code, structure, text1, text2, similarity, uiVars>>

NextIndicators == CheckAiIndicators

SpecIndicators == InitIndicators /\ [][NextIndicators]_vars

(* calculate_similarity on all pairs of short texts *)

MaxLen == 3

\* "a", "b", the space and the vertical tab
SimAlphabet == {ord["a"], ord["b"], ord[" "], 11}

RECURSIVE TextsOfLen(_)
TextsOfLen(n) ==
    IF n = 0 THEN {<< >>} ELSE {Append(t, ch) : t \in TextsOfLen(n - 1), ch \in SimAlphabet}

SimTexts == UNION {TextsOfLen(n) : n \in 0..MaxLen}

InitSimilarity ==
    /\ text1 \in SimTexts
    /\ text2 \in SimTexts
    /\ similarity = NotCalled
    /\ IdleIndicators /\ IdleStructure /\ IdleUI

CalculateSimilarity ==
    /\ similarity = NotCalled
    /\ similarity' = calculate_similarity(text1, text2)
    /\ UNCHANGED <<code, ai_result, structure, text1, text2, uiVars>>

NextSimilarity == CalculateSimilarity

SpecSimilarity == InitSimilarity /\ [][NextSimilarity]_vars

(* analyze_code_structure on the reference document and on short markup *)

MaxTags == 3

Fragments ==
    {Text("<div class=\"row\">"), Text("<section class=\"row\">"),
     Text("<div class=\"container-fluid col-6\">"),
     Text("<p class=\"container col-6\">"),
     Text("<DIV CLASS='arrow'>"), Text("<!--"), Text("-->"), Text("<style>"),
     Text("<![x["), Text("<!DOCTYPE html>"), Text("&#"),
     Text("<div class=r&#111;w>")}

RECURSIVE Markup(_)
Markup(n) ==
    IF n = 0 THEN {<< >>} ELSE {t \o f : t \in Markup(n - 1), f \in Fragments}

\* markup with characters of Unicode: a vertical tab and a no-break space
\* for a space, a NUL in a tag name, capitals outside ASCII, references in
\* attribute values, a script closed with a long s, and a reference of
\* 4301 digits
UnicodeTexts ==
    {Text("<div") \o <<11>> \o Text("class=\"row\">"),
     Text("<div") \o <<160>> \o Text("class=\"row") \o <<8232>> \o Text("col-1\">"),
     Text("<div") \o <<0>> \o Text("class=\"row\">"),
     Text("<D") \o <<304>> \o Text("V CLASS=\"row\">") \o <<931, 192>>,
     Text("<div class=\"&lt;row&#x2d;&ampcol-&notit;\">"),
     Text("<script></") \o <<383>> \o Text("cript><div class=\"row\"></script><div class=\"row\">"),
     Text("<div class=\"row\">&amp") \o Text("<div class=\"col-1\">&a"),
     Text("<div class=\"row\">&#") \o Repeat(Text("1"), 4301) \o Text(";"),
     Text("<div class=\"row\">&#") \o Repeat(Text("0"), 4300) \o Text(";"),
     Text("<div class=\"&#") \o Repeat(Text("7"), 4301) \o Text("\">")}

StructureTexts ==
    UNION {Markup(n) : n \in 0..MaxTags} \cup {EXPECTED_HTML} \cup UnicodeTexts

InitStructure ==
    /\ code \in StructureTexts
    /\ structure = NotCalled
    /\ ai_result = NotCalled
    /\ IdleSimilarity /\ IdleUI

AnalyzeCodeStructure ==
    /\ structure = NotCalled
    /\ structure' = analyze_code_structure(code)
    /\ UNCHANGED <<code, ai_result, text1, text2, similarity, uiVars>>

NextStructure == AnalyzeCodeStructure

SpecStructure == InitStructure /\ [][NextStructure]_vars

(* the Streamlit page: every widget interaction reruns the script *)

InitUI == IdleIndicators /\ IdleSimilarity /\ IdleStructure /\ IdleUI

\* the user changes the text area: a rerun in which the button returns False
EditText ==
    /\ \E t \in UITexts : t # user_code /\ RunScript(t, FALSE)
    /\ UNCHANGED <<code, ai_result, structure, text1, text2, similarity>>

\* the user clicks "Analyze Code": a rerun in which the button returns True
ClickAnalyze ==
    /\ RunScript(user_code, TRUE)
    /\ UNCHANGED <<code, ai_result, structure, text1, text2, similarity>>

NextUI == EditText \/ ClickAnalyze

SpecUI == InitUI /\ [][NextUI]_vars

----------------------------------------------------------------------------
(* Properties of check_ai_indicators, under SpecIndicators *)

\* the condition of check k of the battery, k in 1..10, on text c
Triggered(c, k) ==
    CASE k = 1 -> HasIndentation(c)
      [] k = 2 -> comment_count(c) >= 3
      [] k = 3 -> HasSemanticTag(c)
      [] k = 4 -> bootstrap_count(c) >= 6
      [] k = 5 -> HasStyleAndMedia(c)
      [] k = 6 -> HasKebabClass(c)
      [] k = 7 -> HasDoctypeAndViewport(c)
      [] k = 8 -> HasCdnLink(c)
      [] k = 9 -> row_div_count(c) >= 2
      [] k = 10 -> HasLangAndCharset(c)

\* the weights 1, 1.5, 0.5, 1, 1, 0.5, 1, 1, 1, 0.5 in half points
Weights == <<2, 3, 1, 2, 2, 1, 2, 2, 2, 1>>

LabelOf(c, k) ==
    CASE k = 1 -> "Consistent 2-space indentation"
      [] k = 2 -> "Multiple descriptive comments (" \o Str(comment_count(c)) \o " found)"
      [] k = 3 -> "Semantic HTML5 elements"
      [] k = 4 -> "Extensive Bootstrap utility classes ("
                      \o Str(bootstrap_count(c)) \o " types)"
      [] k = 5 -> "Custom CSS with media queries"
      [] k = 6 -> "Consistent kebab-case naming"
      [] k = 7 -> "Proper HTML5 structure with meta viewport"
      [] k = 8 -> "CDN links for libraries"
      [] k = 9 -> "Complex nested grid structure"
      [] k = 10 -> "Accessibility and encoding attributes"

RECURSIVE WeightFrom(_, _)
WeightFrom(c, k) ==
    IF k > 10 THEN 0
    ELSE (IF Triggered(c, k) THEN Weights[k] ELSE 0) + WeightFrom(c, k + 1)

\* the sum of the weights of the checks whose condition holds on c
WeightedSum(c) == WeightFrom(c, 1)

RECURSIVE LabelsFrom(_, _)
LabelsFrom(c, k) ==
    IF k > 10 THEN << >>
    ELSE (IF Triggered(c, k) THEN <<LabelOf(c, k)>> ELSE << >>) \o LabelsFrom(c, k + 1)

\* a sum of half points clamped to at most 10 points
ClampedAtTen(sum) == IF sum <= 20 THEN sum ELSE 20

\* the clamp leaves a sum of at most 10 points as it is
Unclamped(score, sum) == sum <= 20 /\ score = sum

\* C1: for every text, the score check_ai_indicators returns is the sum of
\* the fixed weights of exactly the checks whose condition holds on the
\* text, clamped to at most 10, and so lies in [0, 10]
C1_ScoreIsClampedWeightedSum ==
    ai_result # NotCalled =>
        /\ ai_result.ai_score = ClampedAtTen(WeightedSum(code))
        /\ ai_result.ai_score >= 0
        /\ ai_result.ai_score <= 20

\* a text on which some checks hold and others do not has been scored 5.5
C1_Witness ==
    /\ ai_result # NotCalled
    /\ ai_result.ai_score = 11
    /\ Triggered(code, 2)
    /\ ~Triggered(code, 1)

\* C2 as stated: on a text on which all ten checks trigger the sum of the
\* weights is 9.5; no text's sum exceeds 10, so min(ai_score, 10) never
\* changes the score
C2_AllTenSumTo_9_5 ==
    ai_result # NotCalled =>
        /\ Unclamped(ai_result.ai_score, WeightedSum(code))
        /\ (\A k \in 1..10 : Triggered(code, k)) => ai_result.ai_score = 19

\* C2, with the sum the weights have: on a text on which all ten checks
\* trigger the sum of the weights is 9.0; no text's sum exceeds 10, so
\* min(ai_score, 10) never changes the score
C2_AllTenSumTo_9_0 ==
    ai_result # NotCalled =>
        /\ Unclamped(ai_result.ai_score, WeightedSum(code))
        /\ (\A k \in 1..10 : Triggered(code, k)) => ai_result.ai_score = 18

\* a text on which all ten checks trigger has been scored
C2_Witness ==
    /\ ai_result # NotCalled
    /\ \A k \in 1..10 : Triggered(code, k)

\* C3: the indicator list holds one label for each check that triggered
\* and none for a check that did not, without duplicates, in the order
\* 1..10 of the checks; when no check triggers, as on the empty string,
\* the result is score 0 and the empty list
C3_IndicatorsAreTriggeredLabels ==
    ai_result # NotCalled =>
        /\ ai_result.indicators = LabelsFrom(code, 1)
        /\ \A m, n \in 1..Len(ai_result.indicators) :
               m # n => ai_result.indicators[m] # ai_result.indicators[n]
        /\ (\A k \in 1..10 : ~Triggered(code, k)) =>
               ai_result = [ai_score |-> 0, indicators |-> << >>]
        /\ code = << >> => ai_result = [ai_score |-> 0, indicators |-> << >>]

\* a text with comments and rows, but no indentation, has its indicators listed
C3_Witness ==
    /\ ai_result # NotCalled
    /\ Len(ai_result.indicators) >= 3
    /\ ~Triggered(code, 1)
    /\ Triggered(code, 2)
    /\ Triggered(code, 9)
    /\ ~Triggered(code, 10)

----------------------------------------------------------------------------
(* Properties of calculate_similarity, under SpecSimilarity *)

SameRatio(r, q) == r.num * q.den = q.num * r.den

\* C4 as stated: calculate_similarity(a, b) = calculate_similarity(b, a)
\* for all texts a and b
C4_Symmetric ==
    similarity # NotCalled =>
        SameRatio(similarity, calculate_similarity(text2, text1))

\* C4, restricted: calculate_similarity(a, b) = calculate_similarity(b, a)
\* when the trimmed texts are equal or one of them is empty; both orders
\* divide by the same T = len(a) + len(b)
C4_SymmetricWhenEqualOrEmpty ==
    similarity # NotCalled =>
        /\ similarity.den = calculate_similarity(text2, text1).den
        /\ (strip(text1) = strip(text2) \/ strip(text1) = << >> \/ strip(text2) = << >>)
               => SameRatio(similarity, calculate_similarity(text2, text1))

\* two different texts that are equal once trimmed have been compared
C4_Witness ==
    /\ similarity # NotCalled
    /\ text1 # text2
    /\ strip(text1) = strip(text2)
    /\ strip(text1) # << >>

\* C5: calculate_similarity(a, b) lies in [0.0, 1.0] and is 1.0 exactly
\* when a and b are identical after trimming, which includes a = b and
\* two texts that are both empty once trimmed
C5_UnitRangeAndOneIffEqual ==
    similarity # NotCalled =>
        /\ similarity.den > 0
        /\ 0 <= similarity.num
        /\ similarity.num <= similarity.den
        /\ (similarity.num = similarity.den) <=> (strip(text1) = strip(text2))

\* two different texts that are both empty once trimmed compare as 1.0
C5_Witness ==
    /\ similarity # NotCalled
    /\ text1 # text2
    /\ strip(text1) = << >>
    /\ strip(text2) = << >>
    /\ similarity.num = similarity.den

----------------------------------------------------------------------------
(* Properties of analyze_code_structure, under SpecStructure *)

\* the facts of the reference document with the given two counts
ReferenceFacts(rows, cols) ==
    [has_doctype |-> TRUE, has_bootstrap_css |-> TRUE, has_bootstrap_js |-> TRUE,
     has_container |-> TRUE, row_count |-> rows, has_custom_css |-> TRUE,
     has_media_query |-> TRUE, col_elements |-> cols]

\* C6 as stated: on EXPECTED_HTML the six boolean facts are true,
\* row_count is 5, col_elements is 11 and the structure score is 8
C6_ReferenceFacts_5_11 ==
    code = EXPECTED_HTML /\ structure # NotCalled =>
        /\ structure = ReferenceFacts(5, 11)
        /\ structure_score(structure) = 8

\* C6, with the counts the reference document has: on EXPECTED_HTML the
\* six boolean facts are true, row_count is 4, col_elements is 9 and the
\* structure score is 8
C6_ReferenceFacts_4_9 ==
    code = EXPECTED_HTML /\ structure # NotCalled =>
        /\ structure = ReferenceFacts(4, 9)
        /\ structure_score(structure) = 8

\* the reference document has been analyzed
C6_Witness ==
    /\ code = EXPECTED_HTML
    /\ structure # NotCalled
    /\ structure # None

\* the class attribute of the element contains the substring frag
ClassContains(tag, frag) ==
    Text("class") \in DOMAIN tag.attrs /\ Contains(tag.attrs[Text("class")], frag)

\* the number of elements, named `name` if only_named, whose class
\* attribute contains frag
CountClass(tags, frag, only_named, name) ==
    Cardinality({k \in 1..Len(tags) :
        /\ ClassContains(tags[k], frag)
        /\ only_named => tags[k].name = name})

ClassFactsOver(st, tags, only_divs) ==
    /\ st.row_count = CountClass(tags, Text("row"), only_divs, Text("div"))
    /\ st.col_elements = CountClass(tags, Text("col-"), only_divs, Text("div"))
    /\ st.has_container =
           (CountClass(tags, Text("container"), only_divs, Text("div")) > 0)

\* C7 as stated: row_count, col_elements and has_container range over
\* every element of the parsed tree regardless of its tag name
C7_ClassFactsOverAllElements ==
    structure # NotCalled /\ structure # None =>
        ClassFactsOver(structure, BeautifulSoup(code).tags, FALSE)

\* C7, restricted to div elements: row_count is the number of div elements
\* whose class attribute contains "row", col_elements the number of div
\* elements whose class attribute contains "col-", and has_container holds
\* iff a div element has a class containing "container"
C7_ClassFactsOverDivs ==
    structure # NotCalled /\ structure # None =>
        ClassFactsOver(structure, BeautifulSoup(code).tags, TRUE)

\* a text with a div and another element of class "row" has been analyzed
C7_Witness ==
    /\ structure # NotCalled
    /\ structure # None
    /\ structure.row_count = 1
    /\ CountClass(BeautifulSoup(code).tags, Text("row"), FALSE, << >>) = 2

----------------------------------------------------------------------------
(* Properties of the page, under SpecUI *)

Shown(message) == \E k \in 1..Len(page.messages) : page.messages[k] = message

HowMany(labels) ==
    Cardinality({k \in 1..Len(page.messages) : page.messages[k] \in labels})

Analysed == page.called # << >>

FlagSet == "analyze" \in DOMAIN session_state /\ session_state["analyze"]

\* C8: every analysis shows exactly one similarity tier and one AI tier:
\* similarity >= 0.95 excellent, 0.80 <= similarity < 0.95 good,
\* similarity < 0.80 significant differences; ai_score >= 7 highly likely
\* AI, 4 <= ai_score < 7 possibly AI-assisted, ai_score < 4 likely human
C8_TierCutoffsInclusive ==
    Analysed =>
        /\ HowMany({"Excellent match!", "Good match with minor differences",
                    "Significant differences detected"}) = 1
        /\ HowMany({"Highly likely AI-generated", "Possibly AI-assisted",
                    "Likely human-written"}) = 1
        /\ Shown("Excellent match!")
               <=> page.similarity[1].num * 100 >= 95 * page.similarity[1].den
        /\ Shown("Good match with minor differences")
               <=> /\ page.similarity[1].num * 100 >= 80 * page.similarity[1].den
                   /\ page.similarity[1].num * 100 < 95 * page.similarity[1].den
        /\ Shown("Significant differences detected")
               <=> page.similarity[1].num * 100 < 80 * page.similarity[1].den
        /\ Shown("Highly likely AI-generated") <=> page.ai_score[1] >= 14
        /\ Shown("Possibly AI-assisted")
               <=> (page.ai_score[1] >= 8 /\ page.ai_score[1] < 14)
        /\ Shown("Likely human-written") <=> page.ai_score[1] < 8

\* a text whose similarity is exactly 0.95 is shown as an excellent match
C8_Witness ==
    /\ Analysed
    /\ page.similarity[1].num * 100 = 95 * page.similarity[1].den
    /\ Shown("Excellent match!")

\* C9: when the parser raises inside analyze_code_structure the function
\* returns None; the page then shows no structure score and the message
\* that the structure could not be parsed, and still shows the similarity,
\* the AI score and the indicators computed in the same run
C9_ParseFailureIsShown ==
    Analysed /\ BeautifulSoup(user_code).rejected =>
        /\ page.structure = <<None>>
        /\ page.structure_score = << >>
        /\ Shown("Could not parse HTML structure")
        /\ page.similarity = <<calculate_similarity(user_code, EXPECTED_HTML)>>
        /\ page.ai_score = <<check_ai_indicators(user_code).ai_score>>
        /\ page.indicators = check_ai_indicators(user_code).indicators
        /\ HowMany({"Highly likely AI-generated", "Possibly AI-assisted",
                    "Likely human-written"}) = 1

\* markup the parser rejects, after a start tag, has been analyzed
C9_Witness ==
    /\ Analysed
    /\ page.structure = <<None>>
    /\ page.indicators # << >>

\* C10: in every rerun the three functions are called only if the text is
\* not blank and the analyze flag is set; the flag changes only in a rerun
\* with a click on non-blank text, which sets it; a click on blank text
\* shows the error, leaves the flag as it was and runs no analysis
C10_RerunGuards ==
    [][/\ Analysed' => (strip(user_code') # << >> /\ FlagSet')
       /\ session_state' # session_state =>
              (clicked' /\ strip(user_code') # << >> /\ FlagSet')
       /\ (clicked' /\ strip(user_code') = << >>) =>
              /\ Shown("Please enter some code to analyze!")'
              /\ session_state' = session_state
              /\ ~Analysed']_vars

\* with the flag set by an earlier click, a click on blank text has shown
\* the error and no analysis
C10_Witness ==
    /\ clicked
    /\ strip(user_code) = << >>
    /\ FlagSet
    /\ Shown("Please enter some code to analyze!")
    /\ ~Analysed
====
